---- MODULE Spec2Model ----
(***************************************************************************)
(* Hjson codec (ooopus/hjson-ts): the parser, the stringifier and the      *)
(* comment extract / merge algorithm as operators over texts, and the      *)
(* call sequences of the public interface as state machines.               *)
(*                                                                         *)
(* A text is a sequence of one-character strings; the source's 0-based     *)
(* offsets are kept (CharAt).  A JS string-or-undefined is a sequence, the *)
(* undefined one being UndefS.  A JS object with optional fields is a      *)
(* record whose DOMAIN holds the fields that are set.                      *)
(***************************************************************************)
EXTENDS Integers, Sequences, FiniteSets, TLC

(***************************************************************************)
(* Characters and JS string primitives                                     *)
(***************************************************************************)

\* the end-of-input character returned by charAt past the end ('' in JS)
EOFc == ""

\* the character '\0' (a non-empty, hence truthy, one-character string)
NULc == "NUL"

\* JS undefined where a string is expected
UndefS == <<"UNDEF">>

\* the control characters of the modelled alphabet: tab, line feed, carriage
\* return, backspace (\b) and form feed (\f), all in [\x00-\x1f]
ControlChars == {"\t", "\n", "\r", "BS", "FF"}

\* a character of the stringifier's commonRange: \x7f
DELc == "DEL"

\* characters c of the modelled alphabet with c <= ' ' (and c non-empty)
WhiteChars == {" "} \cup ControlChars

DigitChars == {"0", "1", "2", "3", "4", "5", "6", "7", "8", "9"}

DigitVal(c) ==
  CASE c = "0" -> 0 [] c = "1" -> 1 [] c = "2" -> 2 [] c = "3" -> 3
    [] c = "4" -> 4 [] c = "5" -> 5 [] c = "6" -> 6 [] c = "7" -> 7
    [] c = "8" -> 8 [] c = "9" -> 9

DigitChar(d) ==
  CASE d = 0 -> "0" [] d = 1 -> "1" [] d = 2 -> "2" [] d = 3 -> "3"
    [] d = 4 -> "4" [] d = 5 -> "5" [] d = 6 -> "6" [] d = 7 -> "7"
    [] d = 8 -> "8" [] d = 9 -> "9"

\* String.prototype.charAt: '' outside the string
CharAt(text, i) == IF i >= 0 /\ i < Len(text) THEN text[i + 1] ELSE EOFc

\* text[i]: undefined outside the string; every comparison with undefined
\* is false, which the callers below spell out with InRange
InRange(text, i) == i >= 0 /\ i < Len(text)

\* String.prototype.substr(start, length) for 0 <= start
Substr(text, start, length) ==
  LET s == IF start > Len(text) THEN Len(text) ELSE start
      n == IF length < 0 THEN 0
           ELSE IF s + length > Len(text) THEN Len(text) - s ELSE length
  IN  SubSeq(text, s + 1, s + n)

\* text.slice(from, to) for 0 <= from <= to
Slice(text, from, to) == SubSeq(text, from + 1, to)

\* ch <= ' ' for a character of the text or '' ('' <= ' ' holds in JS)
LeSpace(c) == c = EOFc \/ c \in WhiteChars

\* ch && ch <= ' '
IsWhite(c) == c \in WhiteChars

IsDigit(c) == c \in DigitChars

RECURSIVE TrimLeft(_)
TrimLeft(s) == IF s # <<>> /\ Head(s) \in WhiteChars THEN TrimLeft(Tail(s)) ELSE s

RECURSIVE TrimRight(_)
TrimRight(s) ==
  IF s # <<>> /\ s[Len(s)] \in WhiteChars THEN TrimRight(SubSeq(s, 1, Len(s) - 1)) ELSE s

\* String.prototype.trim
Trim(s) == TrimLeft(TrimRight(s))

\* String.prototype.indexOf(c) for a one-character c, 0-based, -1 if absent
RECURSIVE IndexOfFrom(_, _, _)
IndexOfFrom(s, c, i) ==
  IF i >= Len(s) THEN -1
  ELSE IF s[i + 1] = c THEN i ELSE IndexOfFrom(s, c, i + 1)

IndexOf(s, c) == IndexOfFrom(s, c, 0)

\* Array.prototype.join(sep)
RECURSIVE Join(_, _)
Join(ss, sep) ==
  IF ss = <<>> THEN <<>>
  ELSE IF Len(ss) = 1 THEN ss[1]
  ELSE ss[1] \o sep \o Join(Tail(ss), sep)

\* String.prototype.split('\n')
RECURSIVE SplitNL(_)
SplitNL(s) ==
  LET j == IndexOf(s, "\n")
  IN  IF j < 0 THEN <<s>>
      ELSE <<SubSeq(s, 1, j)>> \o SplitNL(SubSeq(s, j + 2, Len(s)))

\* indent.repeat(n)
RECURSIVE Repeat(_, _)
Repeat(s, n) == IF n <= 0 THEN <<>> ELSE s \o Repeat(s, n - 1)

\* Body applied to the value v, which is computed once: LET x == v IN Body(x)
Let(v, Body(_)) == Body(v)

\* JS truthiness of a string-or-undefined
Truthy(s) == s # UndefS /\ s # <<>>

\* s || ""
OrEmpty(s) == IF Truthy(s) THEN s ELSE <<>>

(***************************************************************************)
(* Numbers.  A finite double that a decimal literal of the modelled length *)
(* denotes is kept as the decimal m * 10^e, m not divisible by 10 (zero is *)
(* m = 0, e = 0; -0 is not distinguished from 0).                          *)
(***************************************************************************)

RECURSIVE NormDec(_, _)
NormDec(m, e) ==
  IF m = 0 THEN [m |-> 0, e |-> 0]
  ELSE IF m % 10 = 0 THEN NormDec(m \div 10, e + 1)
  ELSE [m |-> m, e |-> e]

RECURSIVE DigitsToNat(_, _)
DigitsToNat(ds, acc) ==
  IF ds = <<>> THEN acc ELSE DigitsToNat(Tail(ds), acc * 10 + DigitVal(Head(ds)))

RECURSIVE NatToDigits(_)
NatToDigits(n) ==
  IF n < 10 THEN <<DigitChar(n)>> ELSE NatToDigits(n \div 10) \o <<DigitChar(n % 10)>>

Abs(n) == IF n < 0 THEN -n ELSE n

\* Number.prototype.toString (Number::toString of ECMA-262) for m * 10^e
NumberToString(num) ==
  IF num.m = 0 THEN <<"0">>
  ELSE
    Let(NatToDigits(Abs(num.m)), LAMBDA ds :
    LET sign == IF num.m < 0 THEN <<"-">> ELSE <<>>
        k    == Len(ds)
        n    == Len(ds) + num.e
        ex   == Len(ds) + num.e - 1
    IN  IF k <= n /\ n <= 21 THEN sign \o ds \o Repeat(<<"0">>, n - k)
        ELSE IF 0 < n /\ n <= 21
          THEN sign \o SubSeq(ds, 1, n) \o <<".">> \o SubSeq(ds, n + 1, k)
        ELSE IF -6 < n /\ n <= 0
          THEN sign \o <<"0", ".">> \o Repeat(<<"0">>, -n) \o ds
        ELSE
          Let((IF ex < 0 THEN <<"-">> ELSE <<"+">>) \o NatToDigits(Abs(ex)), LAMBDA es :
              IF k = 1 THEN sign \o ds \o <<"e">> \o es
              ELSE sign \o <<ds[1], ".">> \o SubSeq(ds, 2, k) \o <<"e">> \o es))

\* first offset >= i of text whose character is not a digit
RECURSIVE SkipDigits(_, _)
SkipDigits(text, i) == IF IsDigit(CharAt(text, i)) THEN SkipDigits(text, i + 1) ELSE i

\* first offset >= i of text whose character is not white (ch && ch <= ' ')
RECURSIVE SkipWhite(_, _)
SkipWhite(text, i) == IF IsWhite(CharAt(text, i)) THEN SkipWhite(text, i + 1) ELSE i

\* number of leading '0' characters of a digit run
RECURSIVE CountLeadingZeros(_)
CountLeadingZeros(ds) ==
  IF ds # <<>> /\ Head(ds) = "0" THEN 1 + CountLeadingZeros(Tail(ds)) ELSE 0

\* the largest decimal exponent of a finite double
MaxDoubleExp == 308

\* the unary plus of tryParseNumber applied to the string it accumulated:
\* sign, integer digits, fraction digits, exponent marker, exponent sign and
\* digits.  [nan, inf, n]
ToNumber(neg, ints, hasDot, fracs, hasE, eNeg, exps) ==
  LET empty == ~neg /\ ints = <<>> /\ ~hasDot /\ ~hasE
      valid == (ints # <<>> \/ fracs # <<>>) /\ (~hasE \/ exps # <<>>)
      ex    == (IF hasE THEN (IF eNeg THEN -1 ELSE 1) * DigitsToNat(exps, 0) ELSE 0)
                 - Len(fracs)
  IN  IF empty THEN [nan |-> FALSE, inf |-> FALSE, n |-> [m |-> 0, e |-> 0]]
      ELSE IF ~valid THEN [nan |-> TRUE, inf |-> FALSE, n |-> [m |-> 0, e |-> 0]]
      ELSE
        Let(DigitsToNat(ints \o fracs, 0), LAMBDA mant :
        Let(NormDec(IF neg THEN -mant ELSE mant, ex), LAMBDA dec :
          IF dec.m # 0 /\ Len(NatToDigits(Abs(dec.m))) + dec.e > MaxDoubleExp + 1
          THEN [nan |-> FALSE, inf |-> TRUE, n |-> [m |-> 0, e |-> 0]]
          ELSE [nan |-> FALSE, inf |-> FALSE, n |-> dec]))

\* the test of the scan's end in tryParseNumber: with stopAtNext a
\* punctuator or comment opener sets ch = '\0', which is a non-empty string
StopChar(text, i, stopAtNext) ==
  LET c == CharAt(text, i)
  IN  IF stopAtNext /\
         (c = "," \/ c = "}" \/ c = "]" \/ c = "#" \/
          (c = "/" /\ InRange(text, i + 1) /\ text[i + 2] \in {"/", "*"}))
      THEN NULc ELSE c

\* the scan of tryParseNumber after the integer digits, which end at i2
NumberTail(text, stopAtNext, neg, i1, i2) ==
  LET ints   == Slice(text, i1, i2)
      hasDot == CharAt(text, i2) = "."
  IN  Let(IF hasDot THEN SkipDigits(text, i2 + 1) ELSE i2, LAMBDA i3 :
      LET fracs == IF hasDot THEN Slice(text, i2 + 1, i3) ELSE <<>>
          hasE  == CharAt(text, i3) \in {"e", "E"}
          hasSg == CharAt(text, i3) \in {"e", "E"} /\ CharAt(text, i3 + 1) \in {"-", "+"}
          eNeg  == CharAt(text, i3) \in {"e", "E"} /\ CharAt(text, i3 + 1) = "-"
      IN  Let(IF hasE THEN SkipDigits(text, IF hasSg THEN i3 + 2 ELSE i3 + 1) ELSE i3, LAMBDA i5 :
          Let(Let(CountLeadingZeros(ints), LAMBDA lz : IF lz = Len(ints) THEN lz - 1 ELSE lz),
              LAMBDA leadingZeros :
          Let(ToNumber(neg, ints, hasDot, fracs, hasE, eNeg,
                       IF hasE THEN Slice(text, IF hasSg THEN i3 + 2 ELSE i3 + 1, i5) ELSE <<>>),
              LAMBDA number :
            IF StopChar(text, SkipWhite(text, i5), stopAtNext) # EOFc
               \/ leadingZeros # 0 \/ number.nan \/ number.inf
            THEN [ok |-> FALSE, n |-> [m |-> 0, e |-> 0]]
            ELSE [ok |-> TRUE, n |-> number.n]))))

\* tryParseNumber(text, stopAtNext): [ok, n]; ok = FALSE is undefined
tryParseNumber(text, stopAtNext) ==
  LET neg == CharAt(text, 0) = "-"
      i1  == IF CharAt(text, 0) = "-" THEN 1 ELSE 0
  IN  NumberTail(text, stopAtNext, neg, i1, SkipDigits(text, i1))

(***************************************************************************)
(* Values.  The annotation (the hidden __COMMENTS__ property) of an array  *)
(* or object is its field cm; NoCm is the undefined one.                   *)
(***************************************************************************)

\* JS undefined where an object is expected
UndefO == [k |-> "undef"]

NoCm == UndefO

\* a pair element that holds an object where a string is expected
ObjS == <<"OBJECT">>

VNull == [t |-> "null"]

VBool(b) == [t |-> "bool", b |-> b]

VNum(n) == [t |-> "num", n |-> n]

VStr(s) == [t |-> "str", s |-> s]

VArr(items, cm) == [t |-> "arr", items |-> items, cm |-> cm]

VObj(keys, vals, cm) == [t |-> "obj", keys |-> keys, vals |-> vals, cm |-> cm]

\* a value that is neither null nor a boolean, number, string, array or
\* object: undefined or a function
VUndef == [t |-> "undefined"]

\* obj && typeof obj === 'object'
IsObjectLike(v) == v.t \in {"arr", "obj"}

\* record r with field f set to x
SetField(r, f, x) == [g \in DOMAIN r \cup {f} |-> IF g = f THEN x ELSE r[g]]

Has(r, f) == f \in DOMAIN r

\* a canonical array index: such keys precede the others, in ascending
\* numeric order, in the enumeration order of a JS object
IsIndexKey(key) ==
  /\ key # <<>>
  /\ Len(key) <= 9
  /\ \A i \in 1..Len(key) : key[i] \in DigitChars
  /\ (Len(key) > 1 => key[1] # "0")

KeyBefore(k1, k2) ==
  /\ IsIndexKey(k1)
  /\ (IsIndexKey(k2) => DigitsToNat(k1, 0) < DigitsToNat(k2, 0))

\* position (1-based) at which a new key enters the enumeration order
RECURSIVE InsertPos(_, _, _)
InsertPos(keys, key, i) ==
  IF i > Len(keys) THEN i
  ELSE IF KeyBefore(key, keys[i]) THEN i
  ELSE InsertPos(keys, key, i + 1)

RECURSIVE KeyIndex(_, _, _)
KeyIndex(keys, key, i) ==
  IF i > Len(keys) THEN 0
  ELSE IF keys[i] = key THEN i ELSE KeyIndex(keys, key, i + 1)

\* Object.prototype.hasOwnProperty.call(value, key)
HasKey(obj, key) == KeyIndex(obj.keys, key, 1) > 0

\* value[key] of an object that has the key
GetKey(obj, key) == obj.vals[KeyIndex(obj.keys, key, 1)]

InsertAt(seq, i, x) == SubSeq(seq, 1, i - 1) \o <<x>> \o SubSeq(seq, i, Len(seq))

\* object[key] = v: a duplicate key keeps its position, the last write wins
ObjSet(obj, key, v) ==
  LET i == KeyIndex(obj.keys, key, 1)
  IN  IF i > 0 THEN [obj EXCEPT !.vals[i] = v]
      ELSE LET p == InsertPos(obj.keys, key, 1)
           IN  [obj EXCEPT !.keys = InsertAt(obj.keys, p, key),
                           !.vals = InsertAt(obj.vals, p, v)]

\* the payload of a value: the value without its annotations
RECURSIVE Payload(_)
Payload(v) ==
  IF v.t = "arr" THEN VArr([i \in 1..Len(v.items) |-> Payload(v.items[i])], NoCm)
  ELSE IF v.t = "obj"
    THEN VObj(v.keys, [i \in 1..Len(v.vals) |-> Payload(v.vals[i])], NoCm)
  ELSE v

(***************************************************************************)
(* Parser (hjson-parse.ts).  The cursor is st = [at, ch]; every operator   *)
(* returns [ok |-> TRUE, st, v] or [ok |-> FALSE, err] for a thrown error. *)
(***************************************************************************)

POk(st, v) == [ok |-> TRUE, st |-> st, v |-> v]

PFail(err) == [ok |-> FALSE, err |-> err]

\* resetAt
resetAt == [at |-> 0, ch |-> " "]

\* next
Next1(text, st) == [at |-> st.at + 1, ch |-> CharAt(text, st.at)]

\* peek
Peek(text, st, offs) == CharAt(text, st.at + offs)

isPunctuatorChar(c) == c \in {"{", "}", "[", "]", ",", ":"}

\* length of the context snippet of an error message
SnippetLen == 20

\* first loop of error(): from offset i down to the line break or offset 0
RECURSIVE ErrColScan(_, _, _)
ErrColScan(text, i, col) ==
  IF i > 0 /\ ~(InRange(text, i) /\ text[i + 1] = "\n")
  THEN ErrColScan(text, i - 1, col + 1)
  ELSE [i |-> i, col |-> col]

\* second loop of error(): the line breaks at offsets i, i-1, .. 1
RECURSIVE ErrLineScan(_, _)
ErrLineScan(text, i) ==
  IF i > 0
  THEN (IF InRange(text, i) /\ text[i + 1] = "\n" THEN 1 ELSE 0) + ErrLineScan(text, i - 1)
  ELSE 0

NoHint == [found |-> "", in |-> <<>>]

\* error(m) with the cursor at offset at
error(text, at, m) ==
  Let(ErrColScan(text, at - 1, 0), LAMBDA c :
      [kind |-> "Error", msg |-> m, at |-> at,
       line |-> 1 + ErrLineScan(text, c.i), col |-> c.col,
       snippet |-> Substr(text, at - c.col, SnippetLen), hint |-> NoHint])

\* a TypeError raised by the JS runtime
TypeError(m) ==
  [kind |-> "TypeError", msg |-> m, at |-> -1, line |-> 0, col |-> 0,
   snippet |-> <<>>, hint |-> NoHint]

\* while (ch && ch <= ' ') next()
RECURSIVE SkipWs(_, _)
SkipWs(text, st) == IF IsWhite(st.ch) THEN SkipWs(text, Next1(text, st)) ELSE st

\* while (ch && ch !== '\n') next()
RECURSIVE SkipLine(_, _)
SkipLine(text, st) ==
  IF st.ch # EOFc /\ st.ch # "\n" THEN SkipLine(text, Next1(text, st)) ELSE st

\* while (ch && !(ch === '*' && peek() === '/')) next()
RECURSIVE SkipBlock(_, _)
SkipBlock(text, st) ==
  IF st.ch # EOFc /\ ~(st.ch = "*" /\ Peek(text, st, 0) = "/")
  THEN SkipBlock(text, Next1(text, st)) ELSE st

\* the cursor after the two characters that close a block comment
AfterBlock(text, s2) == IF s2.ch # EOFc THEN Next1(text, Next1(text, s2)) ELSE s2

\* white
RECURSIVE white(_, _)
white(text, st) ==
  IF st.ch = EOFc THEN st
  ELSE
    Let(SkipWs(text, st), LAMBDA s1 :
        IF s1.ch = "#" \/ (s1.ch = "/" /\ Peek(text, s1, 0) = "/")
          THEN white(text, SkipLine(text, s1))
        ELSE IF s1.ch = "/" /\ Peek(text, s1, 0) = "*"
          THEN white(text, AfterBlock(text, SkipBlock(text, Next1(text, Next1(text, s1)))))
        ELSE s1)

\* the characters of codes 32 .. 126 ("BQ" stands for the backquote)
PrintableAscii ==
  <<" ", "!", "\"", "#", "$", "%", "&", "'", "(", ")", "*", "+", ",", "-", ".", "/",
    "0", "1", "2", "3", "4", "5", "6", "7", "8", "9", ":", ";", "<", "=", ">", "?",
    "@", "A", "B", "C", "D", "E", "F", "G", "H", "I", "J", "K", "L", "M", "N", "O",
    "P", "Q", "R", "S", "T", "U", "V", "W", "X", "Y", "Z", "[", "\\", "]", "^", "_",
    "BQ", "a", "b", "c", "d", "e", "f", "g", "h", "i", "j", "k", "l", "m", "n", "o",
    "p", "q", "r", "s", "t", "u", "v", "w", "x", "y", "z", "{", "|", "}", "~">>

PrintableSet == {PrintableAscii[i] : i \in 1..Len(PrintableAscii)}

\* String.fromCharCode on the modelled alphabet (any other code is "UNK")
FromCharCode(code) ==
  IF code >= 32 /\ code <= 126 THEN PrintableAscii[code - 31]
  ELSE IF code = 8 THEN "BS"
  ELSE IF code = 9 THEN "\t"
  ELSE IF code = 10 THEN "\n"
  ELSE IF code = 12 THEN "FF"
  ELSE IF code = 13 THEN "\r"
  ELSE IF code = 127 THEN DELc
  ELSE "UNK"

\* charCodeAt(0) on the modelled alphabet
CharCode(c) ==
  IF c \in PrintableSet THEN 31 + (CHOOSE i \in 1..Len(PrintableAscii) : PrintableAscii[i] = c)
  ELSE IF c = "BS" THEN 8
  ELSE IF c = "\t" THEN 9
  ELSE IF c = "\n" THEN 10
  ELSE IF c = "FF" THEN 12
  ELSE IF c = "\r" THEN 13
  ELSE IF c = DELc THEN 127
  ELSE 65533

HexChars == DigitChars \cup {"a", "b", "c", "d", "e", "f", "A", "B", "C", "D", "E", "F"}

HexVal(c) ==
  IF c \in DigitChars THEN DigitVal(c)
  ELSE IF c \in {"a", "A"} THEN 10
  ELSE IF c \in {"b", "B"} THEN 11
  ELSE IF c \in {"c", "C"} THEN 12
  ELSE IF c \in {"d", "D"} THEN 13
  ELSE IF c \in {"e", "E"} THEN 14
  ELSE 15

\* the keys of the escapee table of parse
EscapeeChars == {"\"", "'", "\\", "/", "b", "f", "n", "r", "t"}

escapee(c) ==
  CASE c = "b" -> "BS" [] c = "f" -> "FF" [] c = "n" -> "\n" [] c = "r" -> "\r"
    [] c = "t" -> "\t" [] OTHER -> c

\* the four hexadecimal digits of a \u escape: i digits read, value uffff
RECURSIVE UHex(_, _, _, _)
UHex(text, st, i, uffff) ==
  IF i = 4 THEN POk(st, uffff)
  ELSE LET s1 == Next1(text, st)
       IN  IF s1.ch \in HexChars THEN UHex(text, s1, i + 1, uffff * 16 + HexVal(s1.ch))
           ELSE PFail(error(text, s1.at, "Bad \\u char"))

\* skipIndent of mlString
RECURSIVE skipIndent(_, _, _)
skipIndent(text, st, skip) ==
  IF IsWhite(st.ch) /\ st.ch # "\n" /\ skip > 0
  THEN skipIndent(text, Next1(text, st), skip - 1) ELSE st

\* indentation of the line of the opening ''' (the cursor is 4 past its
\* first quote)
RECURSIVE MlIndent(_, _, _)
MlIndent(text, st, indent) ==
  LET c == Peek(text, st, -indent - 5)
  IN  IF c = EOFc \/ c = "\n" THEN indent ELSE MlIndent(text, st, indent + 1)

\* while (ch && ch <= ' ' && ch !== '\n') next()
RECURSIVE SkipWsToEol(_, _)
SkipWsToEol(text, st) ==
  IF IsWhite(st.ch) /\ st.ch # "\n" THEN SkipWsToEol(text, Next1(text, st)) ELSE st

\* the scanning loop of the parser's mlString
RECURSIVE MlLoop(_, _, _, _, _)
MlLoop(text, st, indent, acc, triple) ==
  IF st.ch = EOFc THEN PFail(error(text, st.at, "Bad multiline string"))
  ELSE IF st.ch = "'" THEN
    IF triple + 1 = 3
    THEN POk(Next1(text, st), IF acc # <<>> /\ acc[Len(acc)] = "\n"
                              THEN SubSeq(acc, 1, Len(acc) - 1) ELSE acc)
    ELSE MlLoop(text, Next1(text, st), indent, acc, triple + 1)
  ELSE
    Let(acc \o Repeat(<<"'">>, triple), LAMBDA acc1 :
        IF st.ch = "\n"
        THEN MlLoop(text, skipIndent(text, Next1(text, st), indent), indent, acc1 \o <<"\n">>, 0)
        ELSE MlLoop(text, Next1(text, st), indent,
                    IF st.ch # "\r" THEN acc1 \o <<st.ch>> ELSE acc1, 0))

\* the cursor of mlString after the white space that follows the opening '''
AfterMlOpening(text, s1, indent) ==
  IF s1.ch = "\n" THEN skipIndent(text, Next1(text, s1), indent) ELSE s1

\* mlString of the parser
parseMlString(text, st) ==
  Let(MlIndent(text, st, 0), LAMBDA indent :
      MlLoop(text, AfterMlOpening(text, SkipWsToEol(text, st), indent), indent, <<>>, 0))

RECURSIVE StringLoop(_, _, _, _, _)

\* the escape sequence of string() whose backslash is at s1
StringEscape(text, s2, exitCh, allowML, acc) ==
  IF s2.ch = "u" THEN
    Let(UHex(text, s2, 0, 0), LAMBDA u :
        IF u.ok THEN StringLoop(text, u.st, exitCh, allowML, acc \o <<FromCharCode(u.v)>>)
        ELSE u)
  ELSE IF s2.ch \in EscapeeChars
    THEN StringLoop(text, s2, exitCh, allowML, acc \o <<escapee(s2.ch)>>)
  ELSE PFail(error(text, s2.at, "Bad string"))

\* the closing quote of string(), s2 the cursor after it
StringEnd(text, s2, exitCh, allowML, acc) ==
  IF allowML /\ exitCh = "'" /\ s2.ch = "'" /\ Len(acc) = 0
  THEN parseMlString(text, Next1(text, s2))
  ELSE POk(s2, acc)

\* the loop of string(): acc is the string read so far
StringLoop(text, st, exitCh, allowML, acc) ==
  Let(Next1(text, st), LAMBDA s1 :
      IF s1.ch = EOFc THEN PFail(error(text, s1.at, "Bad string"))
      ELSE IF s1.ch = exitCh THEN StringEnd(text, Next1(text, s1), exitCh, allowML, acc)
      ELSE IF s1.ch = "\\" THEN StringEscape(text, Next1(text, s1), exitCh, allowML, acc)
      ELSE IF s1.ch = "\n" \/ s1.ch = "\r"
        THEN PFail(error(text, s1.at, "Bad string containing newline"))
      ELSE StringLoop(text, s1, exitCh, allowML, acc \o <<s1.ch>>))

\* string(allowML)
string(text, st, allowML) == StringLoop(text, st, st.ch, allowML, <<>>)

RECURSIVE KeynameLoop(_, _, _, _, _)

\* a variant that reports the whitespace in a key at the colon
KeynameLoopAtColon(text, st, start, name, space) ==
  IF st.ch = ":" THEN
    IF name = <<>>
      THEN PFail(error(text, st.at, "Found ':' but no key name (for an empty key name use quotes)"))
    ELSE IF space >= 0 /\ space # Len(name)
      THEN PFail(error(text, st.at, "Found whitespace in your key name (use quotes to include)"))
    ELSE POk(st, name)
  ELSE IF LeSpace(st.ch) THEN
    IF st.ch = EOFc
      THEN PFail(error(text, st.at, "Found EOF while looking for a key name (check your syntax)"))
    ELSE KeynameLoop(text, Next1(text, st), start, name, IF space < 0 THEN Len(name) ELSE space)
  ELSE IF isPunctuatorChar(st.ch)
    THEN PFail(error(text, st.at, "Found punctuator where a key name was expected (check your syntax or use quotes if the key name includes {}[],: or whitespace)"))
  ELSE KeynameLoop(text, Next1(text, st), start, name \o <<st.ch>>, space)

\* the loop of keyname(): name read so far, space = length of the name at
\* the first white character, or -1
\* (the message for a punctuator is written without the character it quotes)
KeynameLoop(text, st, start, name, space) ==
  IF st.ch = ":" THEN
    IF name = <<>>
      THEN PFail(error(text, st.at, "Found ':' but no key name (for an empty key name use quotes)"))
    ELSE IF space >= 0 /\ space # Len(name)
      THEN PFail(error(text, start + space, "Found whitespace in your key name (use quotes to include)"))
    ELSE POk(st, name)
  ELSE IF LeSpace(st.ch) THEN
    IF st.ch = EOFc
      THEN PFail(error(text, st.at, "Found EOF while looking for a key name (check your syntax)"))
    ELSE KeynameLoop(text, Next1(text, st), start, name, IF space < 0 THEN Len(name) ELSE space)
  ELSE IF isPunctuatorChar(st.ch)
    THEN PFail(error(text, st.at, "Found punctuator where a key name was expected (check your syntax or use quotes if the key name includes {}[],: or whitespace)"))
  ELSE KeynameLoop(text, Next1(text, st), start, name \o <<st.ch>>, space)

\* keyname
keyname(text, st) ==
  IF st.ch = "\"" \/ st.ch = "'" THEN string(text, st, FALSE)
  ELSE KeynameLoop(text, st, st.at, <<>>, -1)

\* the backward scan of getComment over trailing white space up to the EOL
RECURSIVE GcScan(_, _, _)
GcScan(text, i, cAt) ==
  IF i > cAt /\ InRange(text, i) /\ IsWhite(text[i + 1]) /\ text[i + 1] # "\n"
  THEN GcScan(text, i - 1, cAt) ELSE i

\* res[i] > ' ' for some i
HasNonWhite(res) == \E i \in 1..Len(res) : ~IsWhite(res[i])

\* the comments of getComment in the text res between cAt and the cursor
SplitComment(res, j, first) ==
  IF ~HasNonWhite(res) THEN <<>>
  ELSE IF j >= 0
    THEN IF first /\ Len(Trim(Substr(res, 0, j))) = 0
         THEN <<Substr(res, j + 1, Len(res))>>
         ELSE <<Substr(res, 0, j), Substr(res, j + 1, Len(res))>>
  ELSE <<res>>

\* if (text[i] === c) i--
StepBack(text, i, c) == IF InRange(text, i) /\ text[i + 1] = c THEN i - 1 ELSE i

\* getComment(cAt, first) of the parser with the cursor at offset at: the
\* list of the 0, 1 or 2 comment strings between cAt - 1 and the cursor
getCommentAt(text, at, cAt0, first) ==
  Let(StepBack(text, StepBack(text, GcScan(text, at - 2, cAt0 - 1), "\n"), "\r"), LAMBDA i :
  Let(Substr(text, cAt0 - 1, i - (cAt0 - 1) + 1), LAMBDA res :
      SplitComment(res, IndexOf(res, "\n"), first)))

\* c[i] || "" for the list returned by getComment (i is 0-based)
CommentAtOrEmpty(c, i) == IF i < Len(c) THEN OrEmpty(c[i + 1]) ELSE <<>>

\* c[i] for the list returned by getComment (i is 0-based)
CommentAt(c, i) == IF i < Len(c) THEN c[i + 1] ELSE UndefS

\* value.indexOf(ch) >= 0
Contains(s, c) == \E i \in 1..Len(s) : s[i] = c

\* search(value, ch) of errorClosingHint: the last string of the value that
\* contains ch, or undefined
RECURSIVE search(_, _)
RECURSIVE SearchSeq(_, _, _)
SearchSeq(vs, ch, res) ==
  IF vs = <<>> THEN res
  ELSE Let(search(Head(vs), ch), LAMBDA r :
           SearchSeq(Tail(vs), ch, IF Truthy(r) THEN r ELSE res))

search(value, ch) ==
  IF value.t = "str" THEN (IF Contains(value.s, ch) THEN value.s ELSE UndefS)
  ELSE IF value.t = "arr" THEN SearchSeq(value.items, ch, UndefS)
  ELSE IF value.t = "obj" THEN SearchSeq(value.vals, ch, UndefS)
  ELSE UndefS

\* errorClosingHint(value): report('}') || report(']')
errorClosingHint(value) ==
  Let(search(value, "}"), LAMBDA r1 :
      IF Truthy(r1) THEN [found |-> "}", in |-> r1]
      ELSE Let(search(value, "]"), LAMBDA r2 :
               IF Truthy(r2) THEN [found |-> "]", in |-> r2] ELSE NoHint))

\* e.hint = e.hint || errorClosingHint(partial) in the catch of array/object
AddHint(err, partial) ==
  IF err.hint.found # "" THEN err ELSE [err EXCEPT !.hint = errorClosingHint(partial)]

\* x.parse(value) of a hook x that answers x.v for the texts in x.texts and
\* undefined for every other text: [ok, v], ok = FALSE is undefined
HookParse(x, value) ==
  IF value \in x.texts THEN [ok |-> TRUE, v |-> x.v] ELSE [ok |-> FALSE, v |-> VNull]

\* runDsf of the parser over the hooks from i on (1-based)
RECURSIVE RunDsfParseFrom(_, _, _)
RunDsfParseFrom(dsf, value, i) ==
  IF i > Len(dsf) THEN [ok |-> FALSE, v |-> VNull]
  ELSE IF HookParse(dsf[i], value).ok THEN HookParse(dsf[i], value)
  ELSE RunDsfParseFrom(dsf, value, i + 1)

\* a variant that lets the last hook with a defined result win
RECURSIVE RunDsfParseLast(_, _, _)
RunDsfParseLast(dsf, value, i) ==
  IF i > Len(dsf) THEN [ok |-> FALSE, v |-> VNull]
  ELSE IF RunDsfParseLast(dsf, value, i + 1).ok THEN RunDsfParseLast(dsf, value, i + 1)
  ELSE HookParse(dsf[i], value)

\* runDsf of the parser for the list dsf of configured hooks: [ok, v], ok =
\* FALSE is undefined; with no hook it is nopDsf
runDsfParseLast(dsf, value) == RunDsfParseLast(dsf, value, 1)

runDsfParse(dsf, value) == RunDsfParseFrom(dsf, value, 1)

kwFalse == <<"f", "a", "l", "s", "e">>

kwNull == <<"n", "u", "l", "l">>

kwTrue == <<"t", "r", "u", "e">>

\* the keyword / number test of tfnns on the text accumulated so far:
\* [ok, v], ok = FALSE when the switch falls through
TfKeyword(value) ==
  Let(IF value = <<>> THEN EOFc ELSE value[1], LAMBDA chf :
      IF chf = "f"
        THEN (IF Trim(value) = kwFalse THEN [ok |-> TRUE, v |-> VBool(FALSE)]
              ELSE [ok |-> FALSE, v |-> VNull])
      ELSE IF chf = "n"
        THEN (IF Trim(value) = kwNull THEN [ok |-> TRUE, v |-> VNull]
              ELSE [ok |-> FALSE, v |-> VNull])
      ELSE IF chf = "t"
        THEN (IF Trim(value) = kwTrue THEN [ok |-> TRUE, v |-> VBool(TRUE)]
              ELSE [ok |-> FALSE, v |-> VNull])
      ELSE IF chf = "-" \/ IsDigit(chf)
        THEN Let(tryParseNumber(value, FALSE), LAMBDA n :
                 IF n.ok THEN [ok |-> TRUE, v |-> VNum(n.n)] ELSE [ok |-> FALSE, v |-> VNull])
      ELSE [ok |-> FALSE, v |-> VNull])

\* the end-of-line test of tfnns
IsEol(ch) == ch = "\r" \/ ch = "\n" \/ ch = EOFc

\* the characters at which tfnns tests the text accumulated so far
TfStop(cx, s1) ==
  IsEol(s1.ch) \/ s1.ch = "," \/ s1.ch = "}" \/ s1.ch = "]" \/ s1.ch = "#" \/
  (s1.ch = "/" /\ Peek(cx.text, s1, 0) \in {"/", "*"})

\* a variant in which a blank is also such a character
TfStopOrBlank(cx, s1) ==
  IsEol(s1.ch) \/ s1.ch = "," \/ s1.ch = "}" \/ s1.ch = "]" \/ s1.ch = "#" \/ s1.ch = " " \/
  (s1.ch = "/" /\ Peek(cx.text, s1, 0) \in {"/", "*"})

\* the quoteless string that tfnns returns at the end of the line
TfString(cx, value) ==
  Let(runDsfParse(cx.dsf, Trim(value)), LAMBDA d : IF d.ok THEN d.v ELSE VStr(Trim(value)))

RECURSIVE TfLoop(_, _, _)

\* a variant that tests the accumulated text at a blank as well
TfLoopBlankStops(cx, st, value) ==
  Let(Next1(cx.text, st), LAMBDA s1 :
  Let(IF TfStopOrBlank(cx, s1) THEN TfKeyword(value) ELSE [ok |-> FALSE, v |-> VNull], LAMBDA kw :
      IF kw.ok THEN POk(s1, kw.v)
      ELSE IF IsEol(s1.ch) THEN POk(s1, TfString(cx, value))
      ELSE TfLoop(cx, s1, value \o <<s1.ch>>)))

\* the for(;;) loop of tfnns: value is the text accumulated so far
TfLoop(cx, st, value) ==
  Let(Next1(cx.text, st), LAMBDA s1 :
  Let(IF TfStop(cx, s1) THEN TfKeyword(value) ELSE [ok |-> FALSE, v |-> VNull], LAMBDA kw :
      IF kw.ok THEN POk(s1, kw.v)
      ELSE IF IsEol(s1.ch) THEN POk(s1, TfString(cx, value))
      ELSE TfLoop(cx, s1, value \o <<s1.ch>>)))

\* tfnns (the message for a punctuator is written without the character it
\* quotes)
tfnns(cx, st) ==
  IF isPunctuatorChar(st.ch)
  THEN PFail(error(cx.text, st.at, "Found a punctuator character when expecting a quoteless string (check your syntax)"))
  ELSE TfLoop(cx, st, IF st.ch = EOFc THEN <<>> ELSE <<st.ch>>)

EmptyMap == [x \in {} |-> <<>>]

\* comments.a[last][1] += s
AppendLastAfter(a, s) == [a EXCEPT ![Len(a)] = <<a[Len(a)][1], a[Len(a)][2] \o s>>]

\* a variant that consumes every comma after a member
RECURSIVE SkipCommaAll(_, _)
SkipCommaAll(text, s1) ==
  IF s1.ch = "," THEN SkipCommaAll(text, white(text, Next1(text, s1))) ELSE s1

\* if (ch === ',') { next(); white(); } of array() and object(): at most one
\* comma is consumed after a member
SkipComma(text, s1) == IF s1.ch = "," THEN white(text, Next1(text, s1)) ELSE s1

RECURSIVE parseValue(_, _)
RECURSIVE ArrLoop(_, _, _, _, _)
RECURSIVE ObjLoop(_, _, _, _, _, _)

\* the annotation of an array after the member whose comments are c
ArrNote(cx, cm, nextComment, c) ==
  IF cx.keep
  THEN [cm EXCEPT !.a = Append(cm.a, <<OrEmpty(nextComment), CommentAtOrEmpty(c, 0)>>)]
  ELSE cm

\* the annotation of an array at its closing bracket
ArrClose(cx, cm1, nc) ==
  IF cx.keep /\ Len(cm1.a) > 0
  THEN [cm1 EXCEPT !.a = AppendLastAfter(cm1.a, OrEmpty(nc))]
  ELSE cm1

\* the while (ch) loop of array(): items and annotation built so far
ArrLoop(cx, st, items, cm, nextComment) ==
  IF st.ch = EOFc
  THEN PFail(AddHint(error(cx.text, st.at, "End of input while parsing an array (missing ']')"),
                     VArr(items, NoCm)))
  ELSE
    Let(parseValue(cx, st), LAMBDA r :
      IF ~r.ok THEN PFail(AddHint(r.err, VArr(items, NoCm)))
      ELSE
        Let(white(cx.text, r.st), LAMBDA s1 :
        Let(SkipComma(cx.text, s1), LAMBDA s2 :
        Let(getCommentAt(cx.text, s2.at, IF s1.ch = "," THEN s1.at + 1 ELSE r.st.at, FALSE),
            LAMBDA c :
        Let(ArrNote(cx, cm, nextComment, c), LAMBDA cm1 :
        Let(IF cx.keep THEN CommentAt(c, 1) ELSE nextComment, LAMBDA nc :
            IF s2.ch = "]"
            THEN POk(Next1(cx.text, s2), VArr(Append(items, r.v), ArrClose(cx, cm1, nc)))
            ELSE ArrLoop(cx, white(cx.text, s2), Append(items, r.v), cm1, nc)))))))

\* the comment that precedes the first member of a container
FirstComment(cx, s1, cAt) ==
  IF cx.keep THEN Join(getCommentAt(cx.text, s1.at, cAt, TRUE), <<"\n">>) ELSE UndefS

\* the annotation of an empty container
EmptyNote(cx, cm0, nextComment) ==
  IF cx.keep THEN SetField(cm0, "e", <<OrEmpty(nextComment), <<>>>>) ELSE cm0

\* array() with the cursor s0 after the opening bracket
ArrBody(cx, s0, cm0) ==
  Let(white(cx.text, s0), LAMBDA s1 :
  Let(FirstComment(cx, s1, s0.at), LAMBDA nextComment :
      IF s1.ch = "]"
      THEN POk(Next1(cx.text, s1), VArr(<<>>, EmptyNote(cx, cm0, nextComment)))
      ELSE ArrLoop(cx, s1, <<>>, cm0, nextComment)))

\* array
array(cx, st) ==
  ArrBody(cx, Next1(cx.text, st), IF cx.keep THEN [k |-> "cm", a |-> <<>>] ELSE NoCm)

\* comments.c[key][1] += s
AppendAfter(c, key, s) == [c EXCEPT ![key] = <<c[key][1], c[key][2] \o s>>]

\* the annotation of an object after the member key whose comments are c
ObjNote(cx, cm, key, nextComment, c) ==
  IF cx.keep
  THEN [cm EXCEPT !.c = SetField(cm.c, key, <<OrEmpty(nextComment), CommentAtOrEmpty(c, 0)>>),
                  !.o = Append(cm.o, key)]
  ELSE cm

\* the annotation of an object at its closing brace
ObjClose(cx, cm1, key, nc) ==
  IF cx.keep THEN [cm1 EXCEPT !.c = AppendAfter(cm1.c, key, OrEmpty(nc))] ELSE cm1

\* the member of object() after its key k and the colon at sk
ObjMember(cx, k, sk, withoutBraces, obj, cm, nextComment) ==
  Let(parseValue(cx, Next1(cx.text, sk)), LAMBDA r :
    IF ~r.ok THEN PFail(AddHint(r.err, obj))
    ELSE
      Let(white(cx.text, r.st), LAMBDA s1 :
      Let(SkipComma(cx.text, s1), LAMBDA s2 :
      Let(getCommentAt(cx.text, s2.at, IF s1.ch = "," THEN s1.at + 1 ELSE r.st.at, FALSE),
          LAMBDA c :
      Let(ObjNote(cx, cm, k.v, nextComment, c), LAMBDA cm1 :
      Let(IF cx.keep THEN CommentAt(c, 1) ELSE nextComment, LAMBDA nc :
          IF s2.ch = "}" /\ ~withoutBraces
          THEN POk(Next1(cx.text, s2),
                   [ObjSet(obj, k.v, r.v) EXCEPT !.cm = ObjClose(cx, cm1, k.v, nc)])
          ELSE ObjLoop(cx, white(cx.text, s2), withoutBraces, ObjSet(obj, k.v, r.v),
                       cm1, nc)))))))

\* the while (ch) loop of object(): the object and annotation built so far
ObjLoop(cx, st, withoutBraces, obj, cm, nextComment) ==
  IF st.ch = EOFc
  THEN IF withoutBraces THEN POk(st, [obj EXCEPT !.cm = cm])
       ELSE PFail(AddHint(error(cx.text, st.at, "End of input while parsing an object (missing '}')"),
                          obj))
  ELSE
    Let(keyname(cx.text, st), LAMBDA k :
      IF ~k.ok THEN PFail(AddHint(k.err, obj))
      ELSE
        Let(white(cx.text, k.st), LAMBDA sk :
            IF sk.ch # ":"
            THEN PFail(AddHint(error(cx.text, sk.at, "Expected ':' instead of"), obj))
            ELSE ObjMember(cx, k, sk, withoutBraces, obj, cm, nextComment)))

\* object() with the cursor s0 before the first member
ObjBody(cx, s0, cAt, withoutBraces, cm0) ==
  Let(white(cx.text, s0), LAMBDA s1 :
  Let(FirstComment(cx, s1, cAt), LAMBDA nextComment :
      IF s1.ch = "}" /\ ~withoutBraces
      THEN POk(Next1(cx.text, s1), VObj(<<>>, <<>>, EmptyNote(cx, cm0, nextComment)))
      ELSE ObjLoop(cx, s1, withoutBraces, VObj(<<>>, <<>>, NoCm), cm0, nextComment)))

\* object(withoutBraces)
object(cx, st, withoutBraces) ==
  ObjBody(cx, IF withoutBraces THEN st ELSE Next1(cx.text, st),
          IF withoutBraces THEN 1 ELSE st.at + 1,
          withoutBraces,
          IF cx.keep THEN [k |-> "cm", c |-> EmptyMap, o |-> <<>>] ELSE NoCm)

\* a quoted string as a value
StringValue(r) == IF r.ok THEN POk(r.st, VStr(r.v)) ELSE r

\* value
parseValue(cx, st) ==
  Let(white(cx.text, st), LAMBDA s1 :
      IF s1.ch = "{" THEN object(cx, s1, FALSE)
      ELSE IF s1.ch = "[" THEN array(cx, s1)
      ELSE IF s1.ch = "'" \/ s1.ch = "\"" THEN StringValue(string(cx.text, s1, TRUE))
      ELSE tfnns(cx, s1))

\* comments.r = [b, a] of checkTrailing
RootNote(cx, r, s1, b, a) ==
  IF cx.keep /\ (Truthy(a) \/ Truthy(b))
  THEN IF IsObjectLike(r.v)
       THEN POk(s1, [r.v EXCEPT !.cm = SetField(r.v.cm, "r", <<b, a>>)])
       ELSE PFail(TypeError("Cannot set properties of undefined (setting 'r')"))
  ELSE POk(s1, r.v)

\* checkTrailing(v, c) applied to the outcome r of the root parse
checkTrailing(cx, r, c) ==
  IF ~r.ok THEN r
  ELSE
    Let(white(cx.text, r.st), LAMBDA s1 :
        IF s1.ch # EOFc
        THEN PFail(error(cx.text, s1.at, "Syntax error, found trailing characters"))
        ELSE RootNote(cx, r, s1, Join(c, <<"\n">>),
                      Join(IF cx.keep THEN getCommentAt(cx.text, s1.at, r.st.at, FALSE) ELSE <<>>,
                           <<"\n">>)))

\* the comments before the root value, the cursor s1 at its first character
RootComments(cx, s1) == IF cx.keep THEN getCommentAt(cx.text, s1.at, 1, FALSE) ELSE <<>>

\* rootValue
rootValue(cx) ==
  Let(white(cx.text, resetAt), LAMBDA s1 :
      checkTrailing(cx,
                    IF s1.ch = "{" THEN object(cx, s1, FALSE)
                    ELSE IF s1.ch = "[" THEN array(cx, s1)
                    ELSE parseValue(cx, s1),
                    RootComments(cx, s1)))

\* a variant that throws the error of the second attempt
LegacyRetryLast(first, second) ==
  IF first.ok THEN first ELSE second

\* the catch of legacyRootValue: the input as a single value, or the error
\* of the first attempt
LegacyRetry(first, second) ==
  IF first.ok THEN first ELSE IF second.ok THEN second ELSE first

\* legacyRootValue
legacyRootValue(cx) ==
  Let(white(cx.text, resetAt), LAMBDA s1 :
      IF s1.ch = "{" \/ s1.ch = "["
      THEN checkTrailing(cx,
                         IF s1.ch = "{" THEN object(cx, s1, FALSE) ELSE array(cx, s1),
                         RootComments(cx, s1))
      ELSE LegacyRetry(checkTrailing(cx, object(cx, s1, TRUE), RootComments(cx, s1)),
                       checkTrailing(cx, parseValue(cx, resetAt), RootComments(cx, s1))))

\* opt?.f of an options record
Opt(opt, f, default) == IF f \in DOMAIN opt THEN opt[f] ELSE default

\* no option given
NoOpt == [x \in {} |-> FALSE]

\* the hooks that lack a name do not match the DSF interface
MatchesDsf(col) == \A i \in 1..Len(col) : Truthy(col[i].name)

\* loadDsf(col, type): the hooks, or the error thrown while loading
loadDsf(col) ==
  IF MatchesDsf(col) THEN [ok |-> TRUE, dsf |-> col]
  ELSE [ok |-> FALSE,
        err |-> [TypeError("extension does not match the DSF interface") EXCEPT !.kind = "Error"]]

\* the parser of a text: the text, keepComments and the DSF hooks
ParseContext(source, opt) ==
  [text |-> source, keep |-> Opt(opt, "keepWsc", FALSE), dsf |-> Opt(opt, "dsf", <<>>)]

\* parse(source, opt)
parse(source, opt) ==
  IF ~loadDsf(Opt(opt, "dsf", <<>>)).ok THEN PFail(loadDsf(Opt(opt, "dsf", <<>>)).err)
  ELSE IF Opt(opt, "legacyRoot", TRUE) # FALSE
  THEN legacyRootValue(ParseContext(source, opt))
  ELSE rootValue(ParseContext(source, opt))

(***************************************************************************)
(* Shared helper of hjson-common.ts                                        *)
(***************************************************************************)

StartsWith(s, p) == Len(s) >= Len(p) /\ SubSeq(s, 1, Len(p)) = p

\* the inner loop of forceComment on one line: "hash" (the line is a # or //
\* comment), "block" (the line opens a /* block), "code" (a character above
\* ' ' comes first) or "blank"
RECURSIVE LineKind(_, _)
LineKind(str, i) ==
  IF i > Len(str) THEN "blank"
  ELSE IF str[i] = "#" THEN "hash"
  ELSE IF str[i] = "/" /\ i < Len(str) /\ str[i + 1] = "/" THEN "hash"
  ELSE IF str[i] = "/" /\ i < Len(str) /\ str[i + 1] = "*" THEN "block"
  ELSE IF ~IsWhite(str[i]) THEN "code"
  ELSE LineKind(str, i + 1)

\* the outer loop of forceComment over the lines
RECURSIVE ForceLines(_)
ForceLines(lines) ==
  IF lines = <<>> THEN <<>>
  ELSE LET kind == LineKind(Head(lines), 1)
       IN  IF kind = "block" THEN lines
           ELSE IF kind = "code"
             THEN <<<<"#", " ">> \o Head(lines)>> \o ForceLines(Tail(lines))
           ELSE <<Head(lines)>> \o ForceLines(Tail(lines))

\* forceComment(text)
forceComment(text) ==
  IF ~Truthy(text) THEN <<>> ELSE Join(ForceLines(SplitNL(text)), <<"\n">>)

(***************************************************************************)
(* Stringifier (hjson-stringify.ts).  Every operator that can throw        *)
(* returns [ok |-> TRUE, s] or [ok |-> FALSE, err].                        *)
(***************************************************************************)

SOk(s) == [ok |-> TRUE, s |-> s]

SFail(err) == [ok |-> FALSE, err |-> err]

\* the characters of the modelled alphabet that the class \s matches
RegexSpace == {" ", "\t", "\n", "\r", "FF"}

\* the characters of the modelled alphabet in the stringifier's commonRange
CommonRange == {DELc}

\* line terminators, which the regular expression dot does not match
LineTerminators == {"\n", "\r"}

\* needsQuotes.test(value)
needsQuotes(value) ==
  \/ value # <<>> /\ value[1] \in RegexSpace
  \/ value # <<>> /\ value[1] \in {"\"", "'", "#", "{", "}", "[", "]", ":", ","}
  \/ StartsWith(value, <<"/", "*">>)
  \/ StartsWith(value, <<"/", "/">>)
  \/ value # <<>> /\ value[Len(value)] \in RegexSpace
  \/ \E i \in 1..Len(value) : value[i] \in ControlChars \cup CommonRange

\* needsEscape.test(value)
needsEscape(value) ==
  \E i \in 1..Len(value) : value[i] \in {"\\", "\""} \cup ControlChars \cup CommonRange

\* first position > i (1-based) of s whose character is not in \s
RECURSIVE SkipRegexSpace(_, _)
SkipRegexSpace(s, i) ==
  IF i <= Len(s) /\ s[i] \in RegexSpace THEN SkipRegexSpace(s, i + 1) ELSE i

\* startsWithKeyword.test(value):
\* ^(true|false|null)\s*((,|\]|\}|#|//|/\*).*)?$
startsWithKeyword(value) ==
  \E kw \in {kwTrue, kwFalse, kwNull} :
    /\ StartsWith(value, kw)
    /\ LET i    == SkipRegexSpace(value, Len(kw) + 1)
           rest == SubSeq(value, i, Len(value))
       IN  \/ rest = <<>>
           \/ /\ \/ rest[1] \in {",", "]", "}", "#"}
                 \/ StartsWith(rest, <<"/", "/">>)
                 \/ StartsWith(rest, <<"/", "*">>)
              /\ \A j \in 1..Len(rest) : rest[j] \notin LineTerminators

\* value.includes("'''")
HasTripleQuote(value) ==
  \E i \in 1..(Len(value) - 2) : value[i] = "'" /\ value[i + 1] = "'" /\ value[i + 2] = "'"

\* needsEscapeML.test(value) for the multiline mode (2 is no-tabs)
needsEscapeML(value, multiline) ==
  \/ HasTripleQuote(value)
  \/ value # <<>> /\ \A i \in 1..Len(value) : value[i] \in RegexSpace
  \/ \E i \in 1..Len(value) :
       value[i] \in ((ControlChars \ {"\n", "\r"}) \ (IF multiline = 2 THEN {} ELSE {"\t"}))
                      \cup CommonRange

\* wrap(tk, v) for the plain token table
wrap(tk, v) == tk[1] \o v \o tk[2]

\* the plain token table
token ==
  [obj |-> <<<<"{">>, <<"}">>>>, arr |-> <<<<"[">>, <<"]">>>>,
   key |-> <<<<>>, <<>>>>, qkey |-> <<<<"\"">>, <<"\"">>>>,
   col |-> <<<<":">>, <<>>>>, com |-> <<<<",">>, <<>>>>,
   str |-> <<<<>>, <<>>>>, qstr |-> <<<<"\"">>, <<"\"">>>>,
   mstr |-> <<<<"'", "'", "'">>, <<"'", "'", "'">>>>,
   num |-> <<<<>>, <<>>>>, lit |-> <<<<>>, <<>>>>, dsf |-> <<<<>>, <<>>>>,
   esc |-> <<<<"\\">>, <<>>>>, uni |-> <<<<"\\", "u">>, <<>>>>, rem |-> <<<<>>, <<>>>>]

HexDigit(d) == IF d < 10 THEN DigitChar(d) ELSE <<"a", "b", "c", "d", "e", "f">>[d - 9]

\* ('0000' + code.toString(16)).slice(-4)
Hex4(code) ==
  <<HexDigit((code \div 4096) % 16), HexDigit((code \div 256) % 16),
    HexDigit((code \div 16) % 16), HexDigit(code % 16)>>

\* the keys of the meta table
MetaChars == {"BS", "\t", "\n", "FF", "\r", "\"", "\\"}

meta(c) ==
  CASE c = "BS" -> "b" [] c = "\t" -> "t" [] c = "\n" -> "n" [] c = "FF" -> "f"
    [] c = "\r" -> "r" [] OTHER -> c

\* quoteReplace(string)
RECURSIVE quoteReplace(_)
quoteReplace(s) ==
  IF s = <<>> THEN <<>>
  ELSE LET c == Head(s)
       IN  (IF c \in MetaChars THEN wrap(token.esc, <<meta(c)>>)
            ELSE IF c \in ControlChars \cup CommonRange THEN wrap(token.uni, Hex4(CharCode(c)))
            ELSE <<c>>) \o quoteReplace(Tail(s))

\* JSON.stringify(s).slice(1, -1)
RECURSIVE JsonEscape(_)
JsonEscape(s) ==
  IF s = <<>> THEN <<>>
  ELSE LET c == Head(s)
       IN  (IF c \in MetaChars THEN <<"\\", meta(c)>> ELSE <<c>>) \o JsonEscape(Tail(s))

\* isKeyword(value)
isKeyword(value) ==
  value = kwTrue \/ value = kwFalse \/ value = kwNull \/ tryParseNumber(value, FALSE).ok

\* isChar(c) of isSafeString
isChar(c) == c \in PrintableSet /\ c \notin {"'", "\"", "{", "}", "[", "]", ":", ","}

\* isComment(c, i) of isSafeString, i 1-based
isComment(value, i) ==
  \/ value[i] = "/" /\ i < Len(value) /\ value[i + 1] \in {"/", "*"}
  \/ value[i] = "#"

\* isSafeString(value)
isSafeString(value) ==
  /\ Len(value) # 0
  /\ ~isKeyword(value)
  /\ \A i \in 1..Len(value) : ~isComment(value, i) /\ isChar(value[i])

\* the lines of the stringifier's mlString between the delimiters
RECURSIVE MlLines(_, _, _, _)
MlLines(lines, i, innerIndent, eol) ==
  IF i > Len(lines) THEN <<>>
  ELSE
    LET line == lines[i]
        isFirstOrLast == i = 1 \/ i = Len(lines)
        isEmpty == Trim(line) = <<>>
    IN  (IF isFirstOrLast /\ isEmpty THEN line ELSE innerIndent \o line)
        \o (IF i < Len(lines) THEN eol ELSE <<>>)
        \o MlLines(lines, i + 1, innerIndent, eol)

\* value.replace(/\r/g, '')
RemoveCR(s) == SelectSeq(s, LAMBDA c : c # "\r")

\* mlString(value, level) of the stringifier
mlString(sx, value, level) ==
  LET lines == SplitNL(RemoveCR(value))
      multilineStringIndent == Repeat(sx.indent, level + 1)
  IN  IF Len(lines) = 1 /\ ~HasTripleQuote(value)
      THEN multilineStringIndent \o token.mstr[1] \o value \o token.mstr[2]
      ELSE multilineStringIndent \o token.mstr[1] \o sx.eol
           \o MlLines(lines, 1, multilineStringIndent, sx.eol)
           \o (IF value = <<>> \/ value[Len(value)] # "\n" THEN sx.eol ELSE <<>>)
           \o multilineStringIndent \o token.mstr[2]

\* quotelessString(value, separator, level, isRootObject, hasComment)
quotelessString(sx, value, separator, level, isRootObject, hasComment) ==
  IF sx.quoteStrings \/ hasComment \/ separator # <<>> \/ needsQuotes(value)
     \/ tryParseNumber(value, TRUE).ok \/ startsWithKeyword(value)
  THEN IF ~needsEscapeML(value, sx.multiline) /\ ~isRootObject /\ sx.multiline # 0
         THEN mlString(sx, value, level)
       ELSE IF ~needsEscape(value) THEN wrap(token.qstr, value)
       ELSE wrap(token.qstr, quoteReplace(value))
  ELSE wrap(token.str, value)

\* quoteKey(key)
quoteKey(sx, key) ==
  IF key = kwNull /\ ~sx.quoteKeys THEN wrap(token.key, key)
  ELSE IF sx.quoteKeys \/ ~isSafeString(key) THEN wrap(token.qkey, JsonEscape(key))
  ELSE wrap(token.key, key)

\* startsWithNL(str)
startsWithNL(str) ==
  /\ Truthy(str)
  /\ LET i == IF str[1] = "\r" THEN 2 ELSE 1
     IN  i <= Len(str) /\ str[i] = "\n"

\* commentOnThisLine(str)
commentOnThisLine(str) == Truthy(str) /\ ~startsWithNL(str)

\* number of leading characters <= ' '
RECURSIVE LeadingWhite(_, _)
LeadingWhite(str, i) ==
  IF i < Len(str) /\ IsWhite(str[i + 1]) THEN LeadingWhite(str, i + 1) ELSE i

\* makeComment after str = common.forceComment(str) and the scan i
MadeComment(forced, i, prefix, trim) ==
  IF i < Len(forced)
  THEN prefix \o wrap(token.rem, IF trim /\ i > 0 THEN Substr(forced, i, Len(forced)) ELSE forced)
  ELSE IF trim /\ i > 0 THEN Substr(forced, i, Len(forced)) ELSE forced

\* makeComment(str, prefix, trim) of the stringifier
makeComment(str0, prefix, trim) ==
  IF ~Truthy(str0) THEN <<>>
  ELSE Let(forceComment(str0), LAMBDA forced :
         MadeComment(forced, LeadingWhite(forced, 0), prefix, trim))

\* str.replace(/\n/g, by)
RECURSIVE ReplaceNL(_, _)
ReplaceNL(s, by) ==
  IF s = <<>> THEN <<>>
  ELSE (IF Head(s) = "\n" THEN by ELSE <<Head(s)>>) \o ReplaceNL(Tail(s), by)

\* a < b for strings (comparison by code units)
RECURSIVE StrLess(_, _)
StrLess(a, b) ==
  IF b = <<>> THEN FALSE
  ELSE IF a = <<>> THEN TRUE
  ELSE IF Head(a) = Head(b) THEN StrLess(Tail(a), Tail(b))
  ELSE CharCode(Head(a)) < CharCode(Head(b))

RECURSIVE SortInsert(_, _)
SortInsert(sorted, x) ==
  IF sorted = <<>> THEN <<x>>
  ELSE IF StrLess(x, Head(sorted)) THEN <<x>> \o sorted
  ELSE <<Head(sorted)>> \o SortInsert(Tail(sorted), x)

\* keys.sort()
RECURSIVE SortKeys(_)
SortKeys(keys) ==
  IF keys = <<>> THEN <<>> ELSE SortInsert(SortKeys(Tail(keys)), Head(keys))

\* isInvalidDsfChar(c)
isInvalidDsfChar(c) == c \in {"{", "}", "[", "]", ",", "\""}

\* the test that loadDsf applies to the result res of a stringify hook, a
\* text or undefined
InvalidDsfResult(res) ==
  /\ res # UndefS
  /\ \/ Len(res) = 0
     \/ res[1] = "\""
     \/ \E i \in 1..Len(res) : isInvalidDsfChar(res[i])

\* x.stringify(value) of a hook x that answers r for the values whose type
\* is in x.on and undefined for every other value
HookStringify(x, value) == IF value.t \in x.on THEN x.r ELSE UndefS

\* the error that the wrapper of loadDsf throws for the hook named name
DsfError(name, res) ==
  [kind |-> "Error", plugin |-> name, res |-> res,
   msg |-> "value may not be empty, start with a quote or contain a punctuator character except colon",
   at |-> -1, line |-> 0, col |-> 0, snippet |-> <<>>, hint |-> NoHint]

\* runDsf of the stringifier over the hooks from i on (1-based): [ok, s] with
\* ok = FALSE for undefined, or [thrown, err] when the wrapper of a hook throws
RECURSIVE RunDsfFrom(_, _, _)
RunDsfFrom(dsf, value, i) ==
  IF i > Len(dsf) THEN [ok |-> FALSE, thrown |-> FALSE, s |-> <<>>]
  ELSE IF InvalidDsfResult(HookStringify(dsf[i], value))
    THEN [ok |-> FALSE, thrown |-> TRUE, s |-> <<>>,
          err |-> DsfError(dsf[i].name, HookStringify(dsf[i], value))]
  ELSE IF HookStringify(dsf[i], value) # UndefS
    THEN [ok |-> TRUE, thrown |-> FALSE, s |-> HookStringify(dsf[i], value)]
  ELSE RunDsfFrom(dsf, value, i + 1)

\* runDsf of the stringifier; with no hook it is nopDsf
runDsfStringify(dsf, value) == RunDsfFrom(dsf, value, 1)

\* property b of an annotation entry: the entries the parser and merge write
\* are arrays [before, after], which have no property b
EntryB(comment) == UndefS

\* property a of an annotation entry (see EntryB)
EntryA(comment) == UndefS

keyCOMMENTS == <<"_", "_", "C", "O", "M", "M", "E", "N", "T", "S">>

\* an annotation entry that is absent: a hole of comments.a or a missing
\* key of comments.c
NoEntry == <<>>

\* WhitespaceAndComments.a[i], i 0-based
EntryOfIndex(cm, i) == IF i < Len(cm.a) THEN cm.a[i + 1] ELSE NoEntry

\* WhitespaceAndComments.c[key]
EntryOfKey(cm, key) == IF key \in DOMAIN cm.c THEN cm.c[key] ELSE NoEntry

\* comment && (commentOnThisLine(comment.a) || comment.b)
EntryHasComment(comment) ==
  comment # NoEntry /\ (commentOnThisLine(EntryA(comment)) \/ Truthy(EntryB(comment)))

\* the comment lines emitted before a member
BeforeComment(sx, comment, indent2) ==
  IF comment # NoEntry /\ Truthy(EntryB(comment))
  THEN indent2 \o ReplaceNL(makeComment(EntryB(comment), <<>>, FALSE), sx.eol \o indent2) \o sx.eol
  ELSE <<>>

\* the comment emitted after a member
AfterComment(sx, comment, indent2) ==
  IF comment # NoEntry /\ Truthy(EntryA(comment))
  THEN ReplaceNL(makeComment(EntryA(comment),
                             IF commentOnThisLine(EntryA(comment)) THEN <<" ">> ELSE <<>>,
                             commentOnThisLine(EntryA(comment))),
                 sx.eol \o indent2)
  ELSE <<>>

\* the end comments of a container: [ok, s]
EndComments(sx, cm, indent2) ==
  IF cm # NoCm /\ Has(cm, "e")
  THEN IF cm.e[1] = UndefS
       THEN SFail(TypeError("Cannot read properties of undefined (reading 'replace')"))
       ELSE SOk(indent2 \o ReplaceNL(cm.e[1], sx.eol \o indent2) \o sx.eol
                \o (IF Truthy(cm.e[2])
                    THEN indent2 \o ReplaceNL(cm.e[2], sx.eol \o indent2) \o sx.eol
                    ELSE <<>>))
  ELSE SOk(<<>>)

RECURSIVE visit(_, _, _, _, _, _)
RECURSIVE CondenseItems(_, _, _, _)
RECURSIVE ArrMembers(_, _, _, _, _, _)
RECURSIVE ObjMembers(_, _, _, _, _, _, _)

\* the loop of the condensed array: the elements from i on (1-based)
CondenseItems(sx, items, i, separator) ==
  IF i > Len(items) THEN SOk(<<>>)
  ELSE
    Let(visit(sx, items[i], separator, 0, FALSE, FALSE), LAMBDA r :
      IF ~r.ok THEN r
      ELSE Let(CondenseItems(sx, items, i + 1, separator), LAMBDA rest :
             IF ~rest.ok THEN rest
             ELSE SOk((IF i > 1 THEN token.com[1] \o <<" ">> ELSE <<>>) \o r.s \o rest.s)))

\* one line of an array: the element text s with its comments
ArrLine(sx, comment, indent2, s, isLast) ==
  BeforeComment(sx, comment, indent2)
    \o indent2 \o s
    \o (IF ~isLast THEN token.com[1] ELSE <<>>)
    \o AfterComment(sx, comment, indent2)
    \o sx.eol

\* the element i (1-based) of an array whose comment entry is comment
ArrMember(sx, items, cm, i, separator2, level, comment) ==
  Let(visit(sx, items[i], separator2, level + 1, FALSE, EntryHasComment(comment)), LAMBDA r :
    IF ~r.ok THEN r
    ELSE Let(ArrMembers(sx, items, cm, i + 1, separator2, level), LAMBDA rest :
           IF ~rest.ok THEN rest
           ELSE SOk(ArrLine(sx, comment, Repeat(sx.indent, level + 1), r.s, i = Len(items))
                    \o rest.s)))

\* the loop over the elements of an array, one per line, from i on (1-based)
ArrMembers(sx, items, cm, i, separator2, level) ==
  IF i > Len(items) THEN SOk(<<>>)
  ELSE IF cm # NoCm /\ ~Has(cm, "a")
    THEN SFail(TypeError("Cannot read properties of undefined (reading 'i')"))
  ELSE ArrMember(sx, items, cm, i, separator2, level,
                 IF cm # NoCm THEN EntryOfIndex(cm, i - 1) ELSE NoEntry)

\* one line of an object: the member key: vs with its comments
ObjLine(sx, comment, indent2, key, vs, separator2) ==
  BeforeComment(sx, comment, indent2)
    \o indent2 \o quoteKey(sx, key) \o token.col[1] \o <<" ">> \o vs
    \o (IF separator2 # <<>> THEN token.com[1] ELSE <<>>)
    \o AfterComment(sx, comment, indent2)
    \o sx.eol

\* the member keys2[i] of an object whose comment entry is comment
ObjProperty(sx, obj, cm, keys2, i, separator2, level, comment) ==
  Let(visit(sx, GetKey(obj, keys2[i]), separator2, level + 1, FALSE, EntryHasComment(comment)),
      LAMBDA vs :
    IF ~vs.ok THEN vs
    ELSE Let(ObjMembers(sx, obj, cm, keys2, i + 1, separator2, level), LAMBDA rest :
           IF ~rest.ok THEN rest
           ELSE SOk(ObjLine(sx, comment, Repeat(sx.indent, level + 1), keys2[i], vs.s, separator2)
                    \o rest.s)))

\* the loop over keys2 of an object, from i on (1-based)
ObjMembers(sx, obj, cm, keys2, i, separator2, level) ==
  IF i > Len(keys2) THEN SOk(<<>>)
  ELSE IF keys2[i] = keyCOMMENTS \/ ~HasKey(obj, keys2[i])
    THEN ObjMembers(sx, obj, cm, keys2, i + 1, separator2, level)
  ELSE ObjProperty(sx, obj, cm, keys2, i, separator2, level,
                 IF cm # NoCm /\ Has(cm, "c") THEN EntryOfKey(cm, keys2[i]) ELSE NoEntry)

\* the string branch of visit
VisitString(sx, s, separator, level, rootObject) ==
  IF sx.quoteStrings THEN SOk(wrap(token.qstr, JsonEscape(s)))
  ELSE IF sx.multiline # 0 /\ ~rootObject /\ IndexOf(s, "\n") >= 0
    THEN SOk(<<"\n">> \o mlString(sx, s, level))
  ELSE SOk(quotelessString(sx, s, separator, level, rootObject, FALSE))

\* a container closed after its members body: the end comments, the
\* indentation and the closing token
CloseContainer(sx, commentInfo, level, open, body, close) ==
  IF ~body.ok THEN body
  ELSE Let(EndComments(sx, commentInfo, Repeat(sx.indent, level + 1)), LAMBDA e :
         IF ~e.ok THEN e
         ELSE SOk(open \o body.s \o e.s \o Repeat(sx.indent, level) \o close))

\* the array branch of visit after the condensed attempt res2
ArrLines(sx, value, commentInfo, separator, level, canCondense, res2) ==
  IF ~res2.ok THEN res2
  ELSE IF canCondense /\ Len(res2.s) + 4 <= sx.condense
    THEN SOk(<<"[", " ">> \o res2.s \o <<" ", "]">>)
  ELSE CloseContainer(sx, commentInfo, level, token.arr[1] \o sx.eol,
                      ArrMembers(sx, value.items, commentInfo, 1, separator, level),
                      token.arr[2])

\* the array branch of visit
VisitArray(sx, value, commentInfo, separator, level, canCondense) ==
  IF Len(value.items) = 0 THEN SOk(<<"[", "]">>)
  ELSE ArrLines(sx, value, commentInfo, separator, level, canCondense,
                IF canCondense THEN CondenseItems(sx, value.items, 1, separator)
                ELSE SOk(<<>>))

\* a variant in which sortProps precedes the recorded order
Keys2Sorted(sx, value, commentInfo) ==
  IF sx.sortProps THEN SortKeys(value.keys)
  ELSE IF commentInfo # NoCm /\ Has(commentInfo, "o") THEN commentInfo.o
  ELSE value.keys

\* the key order keys2 of an object
Keys2(sx, value, commentInfo) ==
  IF commentInfo # NoCm /\ Has(commentInfo, "o") THEN commentInfo.o
  ELSE IF sx.sortProps THEN SortKeys(value.keys)
  ELSE value.keys

\* the opening of an object: the brace only when showBraces
ObjOpen(sx, showBraces) ==
  IF showBraces
  THEN (IF sx.bracesSameLine THEN token.obj[1] \o <<" ">> ELSE token.obj[1] \o sx.eol)
  ELSE <<>>

\* the object branch of visit after the condensed attempt res2
ObjLines(sx, value, commentInfo, separator, level, rootObject, canCondense, res2) ==
  IF ~res2.ok THEN res2
  ELSE IF canCondense /\ Len(res2.s) <= sx.condense THEN res2
  ELSE CloseContainer(sx, commentInfo, level, ObjOpen(sx, rootObject),
                      ObjMembers(sx, value, commentInfo, Keys2(sx, value, commentInfo), 1,
                                 separator, level),
                      token.obj[2])

\* the condensed form of an object with a single property
CondenseObject(sx, value, separator) ==
  Let(visit(sx, value.vals[1], separator, 0, FALSE, FALSE), LAMBDA inner :
    IF ~inner.ok THEN inner
    ELSE SOk(<<"{">> \o quoteKey(sx, value.keys[1]) \o token.col[1] \o <<" ">>
             \o inner.s \o <<"}">>))

\* the object branch of visit
VisitObject(sx, value, commentInfo, separator, level, rootObject, canCondense) ==
  IF Len(value.keys) = 0 THEN SOk(<<"{", "}">>)
  ELSE ObjLines(sx, value, commentInfo, separator, level, rootObject,
                canCondense /\ Len(value.keys) = 1,
                IF canCondense /\ Len(value.keys) = 1
                THEN CondenseObject(sx, value, separator)
                ELSE SOk(<<>>))

\* a variant that writes a non-finite number as a number and rejects the
\* values of other types
VisitValueStrict(sx, value, commentInfo, separator, level, rootObject, hasComment) ==
  IF value.t = "null" THEN SOk(wrap(token.lit, kwNull))
  ELSE IF value.t = "bool"
    THEN SOk(wrap(token.lit, IF value.b THEN kwTrue ELSE kwFalse))
  ELSE IF value.t = "str" THEN VisitString(sx, value.s, separator, level, rootObject)
  ELSE IF value.t = "num" THEN SOk(wrap(token.num, NumberToString(value.n)))
  ELSE IF value.t = "nonfinite" THEN SOk(wrap(token.num, <<"N", "a", "N">>))
  ELSE IF value.t = "arr"
    THEN VisitArray(sx, value, commentInfo, separator, level,
                    sx.condense > 0 /\ commentInfo = NoCm /\ ~hasComment)
  ELSE IF value.t = "obj"
    THEN VisitObject(sx, value, commentInfo, separator, level, rootObject,
                     sx.condense > 0 /\ commentInfo = NoCm /\ ~hasComment)
  ELSE SFail(TypeError("cannot stringify the value"))

\* visit after runDsf returned undefined, with commentInfo resolved
VisitValue(sx, value, commentInfo, separator, level, rootObject, hasComment) ==
  IF value.t = "null" THEN SOk(wrap(token.lit, kwNull))
  ELSE IF value.t = "bool"
    THEN SOk(wrap(token.lit, IF value.b THEN kwTrue ELSE kwFalse))
  ELSE IF value.t = "str" THEN VisitString(sx, value.s, separator, level, rootObject)
  ELSE IF value.t = "num" THEN SOk(wrap(token.num, NumberToString(value.n)))
  ELSE IF value.t = "nonfinite" THEN SOk(wrap(token.lit, kwNull))
  ELSE IF value.t = "arr"
    THEN VisitArray(sx, value, commentInfo, separator, level,
                    sx.condense > 0 /\ commentInfo = NoCm /\ ~hasComment)
  ELSE IF value.t = "obj"
    THEN VisitObject(sx, value, commentInfo, separator, level, rootObject,
                     sx.condense > 0 /\ commentInfo = NoCm /\ ~hasComment)
  ELSE SOk(wrap(token.lit, kwNull))

\* visit(value, separator, level, rootObject, hasComment)
visit(sx, value, separator, level, rootObject, hasComment) ==
  Let(runDsfStringify(sx.dsf, value), LAMBDA dsfValue :
    IF dsfValue.thrown THEN SFail(dsfValue.err)
    ELSE IF dsfValue.ok THEN SOk(dsfValue.s)
    ELSE VisitValue(sx, value,
                    IF sx.keepComments /\ IsObjectLike(value) THEN value.cm ELSE NoCm,
                    separator, level, rootObject, hasComment))

\* opt.quotes after the legacy value 'always' is replaced
QuotesOption(opt) ==
  IF Opt(opt, "quotes", "min") = "always" THEN "strings" ELSE Opt(opt, "quotes", "min")

\* quoteStrings
QuoteStringsOption(opt) ==
  QuotesOption(opt) = "all" \/ QuotesOption(opt) = "strings" \/ Opt(opt, "separator", FALSE) = TRUE

\* multiline: 0 off, 1 std, 2 no-tabs
MultilineOption(opt) ==
  IF QuoteStringsOption(opt) THEN 0
  ELSE IF Opt(opt, "multiline", "std") = "std" THEN 1
  ELSE IF Opt(opt, "multiline", "std") = "no-tabs" THEN 2
  ELSE IF Opt(opt, "multiline", "std") = "off" THEN 0
  ELSE 1

\* the options of stringify resolved against the global end of line EOL
StringifyContext(opt, EOL) ==
  [eol |-> Opt(opt, "eol", EOL),
   indent |-> Repeat(<<" ">>, Opt(opt, "space", 2)),
   keepComments |-> Opt(opt, "keepWhitespaceAndComments", FALSE),
   bracesSameLine |-> Opt(opt, "bracesSameLine", FALSE),
   quoteKeys |-> QuotesOption(opt) = "all" \/ QuotesOption(opt) = "keys",
   quoteStrings |-> QuoteStringsOption(opt),
   condense |-> Opt(opt, "condense", 0),
   multiline |-> MultilineOption(opt),
   separator |-> IF Opt(opt, "separator", FALSE) = TRUE THEN <<",">> ELSE <<>>,
   sortProps |-> Opt(opt, "sortProps", FALSE),
   dsf |-> Opt(opt, "dsf", <<>>)]

\* the root comments comments[0] + '\n' and comments[1] around the body
RootText(sx, value, body) ==
  IF ~body.ok THEN body
  ELSE IF sx.keepComments /\ IsObjectLike(value) /\ value.cm # NoCm /\ Has(value.cm, "r")
    THEN SOk((IF Truthy(value.cm.r[1]) THEN value.cm.r[1] \o <<"\n">> ELSE <<>>)
             \o body.s \o OrEmpty(value.cm.r[2]))
  ELSE SOk(body.s)

\* stringify(value, opt) with the global end of line EOL: [ok, s]
StringifyWith(sx, value) == RootText(sx, value, visit(sx, value, sx.separator, 0, TRUE, FALSE))

stringify(value, opt, EOL) ==
  IF ~loadDsf(Opt(opt, "dsf", <<>>)).ok THEN SFail(loadDsf(Opt(opt, "dsf", <<>>)).err)
  ELSE StringifyWith(StringifyContext(opt, EOL), value)

\* rt.parse(text, options)
rtParse(text, options) == parse(text, SetField(options, "keepWhitespaceAndComments", TRUE))

\* rt.stringify(value, options)
rtStringify(value, options, EOL) ==
  stringify(value, SetField(options, "keepWhitespaceAndComments", TRUE), EOL)

(***************************************************************************)
(* Comments (hjson-comments.ts).  A node of the portable comment document  *)
(* is a record tagged k = "doc" with the optional fields a (the entries of *)
(* an array, by index), s (the entries of an object, by key), o (key       *)
(* order), e, r, b, x.  An entry is the node of the child itself, to which *)
(* saveComment adds b and a; the field a therefore holds either the        *)
(* entries of an array, [ty |-> "map", ent], or an after comment,          *)
(* [ty |-> "str", s].                                                      *)
(***************************************************************************)

EmptyDoc == [k |-> "doc"]

\* makeComment(b, a) of hjson-comments.ts: undefined when both are falsy
cmMakeComment(b, a) ==
  IF Truthy(b) /\ Truthy(a) THEN [k |-> "mc", b |-> b, a |-> a]
  ELSE IF Truthy(b) THEN [k |-> "mc", b |-> b]
  ELSE IF Truthy(a) THEN [k |-> "mc", a |-> a]
  ELSE UndefO

\* c.b of a document entry or of a makeComment result
FieldB(c) == IF Has(c, "b") THEN c.b ELSE UndefS

\* c.a of a makeComment result (a string) or of a document entry: an after
\* comment, or the entries of the child array (an object), or undefined
FieldA(c) ==
  IF ~Has(c, "a") THEN UndefS
  ELSE IF c.k = "mc" THEN c.a
  ELSE IF c.a.ty = "str" THEN c.a.s
  ELSE ObjS

\* comments.e, comments.r: undefined when absent
FieldE(c) == IF Has(c, "e") THEN c.e ELSE UndefO

FieldR(c) == IF Has(c, "r") THEN c.r ELSE UndefO

\* if (ck[0]) res[key].b = ck[0]
SaveBefore(e, ck) ==
  IF ck # NoEntry /\ Truthy(ck[1]) THEN SetField(e, "b", ck[1]) ELSE e

\* if (ck[1]) res[key].a = ck[1]
SaveAfter(e, ck) ==
  IF ck # NoEntry /\ Truthy(ck[2]) THEN SetField(e, "a", [ty |-> "str", s |-> ck[2]]) ELSE e

\* saveComment(res, key, ck, c): [saved, entry]
saveComment(ck, c) ==
  IF ck = NoEntry /\ c = UndefO THEN [saved |-> FALSE, entry |-> UndefO]
  ELSE [saved |-> TRUE,
        entry |-> SaveAfter(SaveBefore(IF c # UndefO THEN c ELSE EmptyDoc, ck), ck)]

\* comments.o.concat(currentKeys) filtered to the own keys, without repeats
RECURSIVE MergeKeyOrder(_, _, _)
MergeKeyOrder(cands, obj, keys) ==
  IF cands = <<>> THEN keys
  ELSE MergeKeyOrder(Tail(cands), obj,
                     IF HasKey(obj, Head(cands)) /\ KeyIndex(keys, Head(cands), 1) = 0
                     THEN Append(keys, Head(cands)) ELSE keys)

RECURSIVE extractComments(_, _)
RECURSIVE ExtractArrLoop(_, _, _, _, _, _)
RECURSIVE ExtractObjLoop(_, _, _, _, _, _, _)

\* the loop of extractComments over the elements of an array, from i on
\* (1-based): [items, ent, has]
ExtractArrLoop(items, cm, i, newItems, ent, has) ==
  IF i > Len(items) THEN [items |-> newItems, ent |-> ent, has |-> has]
  ELSE
    Let(extractComments(items[i], FALSE), LAMBDA child :
    Let(saveComment(IF cm # NoCm /\ Has(cm, "a") THEN EntryOfIndex(cm, i - 1) ELSE NoEntry,
                    child.doc), LAMBDA sv :
      ExtractArrLoop(items, cm, i + 1, Append(newItems, child.v),
                     IF sv.saved THEN SetField(ent, i - 1, sv.entry) ELSE ent,
                     has \/ sv.saved)))

\* the loop of extractComments over the keys of an object, from i on
\* (1-based): [obj, ent, has]
ExtractObjLoop(obj, cm, keys, i, newObj, ent, has) ==
  IF i > Len(keys) THEN [obj |-> newObj, ent |-> ent, has |-> has]
  ELSE
    Let(extractComments(GetKey(obj, keys[i]), FALSE), LAMBDA child :
    Let(saveComment(IF cm # NoCm /\ Has(cm, "c") THEN EntryOfKey(cm, keys[i]) ELSE NoEntry,
                    child.doc), LAMBDA sv :
      ExtractObjLoop(obj, cm, keys, i + 1, ObjSet(newObj, keys[i], child.v),
                     IF sv.saved THEN SetField(ent, keys[i], sv.entry) ELSE ent,
                     has \/ sv.saved)))

\* comments?.e
HasEnd(comments) == comments # NoCm /\ Has(comments, "e")

\* root && comments?.r
HasRoot(comments, root) == root /\ comments # NoCm /\ Has(comments, "r")

\* if (!hasComments && comments?.e) res.e = makeComment(...)
DocEnd(res, has, comments) ==
  IF ~has /\ HasEnd(comments)
  THEN SetField(res, "e", cmMakeComment(comments.e[1], comments.e[2]))
  ELSE res

\* if (root && comments?.r) res.r = makeComment(...)
DocRoot(res, comments, root) ==
  IF HasRoot(comments, root)
  THEN SetField(res, "r", cmMakeComment(comments.r[1], comments.r[2]))
  ELSE res

\* return hasComments ? res : undefined
ExtractDoc(res, has, comments, root) ==
  IF has \/ HasEnd(comments) \/ HasRoot(comments, root)
  THEN DocRoot(DocEnd(res, has, comments), comments, root)
  ELSE UndefO

\* the array branch of extractComments
ExtractArray(value, root) ==
  Let(ExtractArrLoop(value.items, value.cm, 1, <<>>, EmptyMap, FALSE), LAMBDA l :
    [doc |-> ExtractDoc([k |-> "doc", a |-> [ty |-> "map", ent |-> l.ent]],
                        l.has, value.cm, root),
     v |-> VArr(l.items, NoCm)])

\* the key order of extractComments
ExtractKeys(value) ==
  IF value.cm # NoCm /\ Has(value.cm, "o")
  THEN MergeKeyOrder(value.cm.o \o value.keys, value, <<>>)
  ELSE value.keys

\* the object branch of extractComments with the key order keys
ExtractObject(value, keys, root) ==
  Let(ExtractObjLoop(value, value.cm, keys, 1, [value EXCEPT !.cm = NoCm], EmptyMap, FALSE),
      LAMBDA l :
    [doc |-> ExtractDoc([k |-> "doc", s |-> l.ent, o |-> keys], l.has, value.cm, root),
     v |-> l.obj])

\* extractComments(value, root): [doc, v], doc the returned document (or
\* undefined) and v the value, whose annotations are removed
extractComments(value, root) ==
  IF ~IsObjectLike(value) THEN [doc |-> UndefO, v |-> value]
  ELSE IF value.t = "arr" THEN ExtractArray(value, root)
  ELSE ExtractObject(value, ExtractKeys(value), root)

\* comments.extract(value)
extract(value) == extractComments(value, TRUE)

\* the outcome of merge and dropAll: the value, the dropped comments, and
\* the TypeError thrown, if any
MOk(v, dropped) == [ok |-> TRUE, v |-> v, dropped |-> dropped]

MFail(m) == [ok |-> FALSE, err |-> TypeError(m)]

\* mergeStr(...args): [ok, s]; an argument that is not a string has no trim
RECURSIVE mergeStrLoop(_, _)
mergeStrLoop(args, res) ==
  IF args = <<>> THEN SOk(res)
  ELSE LET c == Head(args) IN
    IF ~Truthy(c) THEN mergeStrLoop(Tail(args), res)
    ELSE IF c = ObjS THEN SFail(TypeError("c.trim is not a function"))
    ELSE IF Trim(c) # <<>>
         THEN mergeStrLoop(Tail(args),
                           (IF res # <<>> THEN res \o <<";", " ">> ELSE res) \o Trim(c))
         ELSE mergeStrLoop(Tail(args), res)

mergeStr(args) == mergeStrLoop(args, <<>>)

\* droppedComment(path, c): [ok, d]; res.path = path throws when makeComment
\* returns undefined
droppedComment(path, c) ==
  Let(cmMakeComment(FieldB(c), FieldA(c)), LAMBDA res :
    IF res = UndefO
    THEN [ok |-> FALSE, err |-> TypeError("Cannot set properties of undefined (setting 'path')")]
    ELSE [ok |-> TRUE, d |-> SetField(res, "path", path)])

\* dropped.push(droppedComment(path, c)) on an outcome
PushDropped(r, path, c) ==
  IF ~r.ok THEN r
  ELSE Let(droppedComment(path, c), LAMBDA d :
         IF d.ok THEN [r EXCEPT !.dropped = Append(r.dropped, d.d)]
         ELSE MFail(d.err.msg))

\* a path element: join('/') writes an index in decimal
PathIndex(i) == NatToDigits(i)

RECURSIVE dropAll(_, _, _)
RECURSIVE DropAllKeys(_, _, _, _)

\* dropped.push(droppedComment(kpath, c)); dropAll(c.x, dropped, kpath)
DropEntry(r, kpath, c) ==
  Let(PushDropped(r, kpath, c), LAMBDA r1 :
    IF r1.ok /\ Has(c, "x") THEN dropAll(c.x, r1, kpath) ELSE r1)

\* the forEach of dropAll over comments.o, from i on (1-based)
DropAllKeys(comments, i, r, path) ==
  IF ~r.ok \/ i > Len(comments.o) THEN r
  ELSE IF comments.o[i] \notin DOMAIN comments.s THEN DropAllKeys(comments, i + 1, r, path)
  ELSE DropAllKeys(comments, i + 1,
                   DropEntry(r, Append(path, comments.o[i]), comments.s[comments.o[i]]),
                   path)

\* if (comments.e) dropped.push(droppedComment(path, comments.e))
DropEnd(comments, r, path) ==
  IF FieldE(comments) # UndefO THEN PushDropped(r, path, FieldE(comments)) ELSE r

\* dropAll(comments, dropped, path) on an outcome r.  The entries of an
\* array are an object without a length, so that its loop has no iteration.
dropAll(comments, r, path) ==
  IF comments = UndefO \/ ~r.ok THEN r
  ELSE DropEnd(comments,
               IF Has(comments, "a") THEN r
               ELSE IF Has(comments, "o") THEN DropAllKeys(comments, 1, r, path)
               ELSE r,
               path)

\* setComments.a[i] = pair, i 0-based, on a sparse array
RECURSIVE SetIndex(_, _, _)
SetIndex(a, i, pair) ==
  IF i < Len(a) THEN [a EXCEPT ![i + 1] = pair]
  ELSE SetIndex(Append(a, NoEntry), i, pair)

\* [c.b, c.a]
PairOf(c) == <<FieldB(c), FieldA(c)>>

\* the largest index of the entries of an array, -1 if there is none
MaxIndex(ent) == IF DOMAIN ent = {} THEN -1
                 ELSE CHOOSE i \in DOMAIN ent : \A j \in DOMAIN ent : j <= i

RECURSIVE merge(_, _, _, _)
RECURSIVE MergeArrLoop(_, _, _, _)
RECURSIVE MergeObjLoop(_, _, _, _)

\* merge(c.x, child, dropped, kpath)
MergeChild(c, child, dropped, kpath) ==
  IF Has(c, "x") THEN merge(c.x, child, dropped, kpath) ELSE MOk(child, dropped)

\* setComments.a[i] = [c.b, c.a]
SetArrNote(value, i, c) ==
  [value EXCEPT !.cm = SetField(value.cm, "a", SetIndex(value.cm.a, i, PairOf(c)))]

\* the for-in loop of merge over the entries of an array, from index i on
MergeArrLoop(ent, i, r, path) ==
  IF ~r.ok \/ i > MaxIndex(ent) THEN r
  ELSE IF i \notin DOMAIN ent THEN MergeArrLoop(ent, i + 1, r, path)
  ELSE IF i < Len(r.v.items) THEN
    Let(SetArrNote(r.v, i, ent[i]), LAMBDA v1 :
    Let(MergeChild(ent[i], v1.items[i + 1], r.dropped, Append(path, PathIndex(i))), LAMBDA rc :
      MergeArrLoop(ent, i + 1,
                   IF rc.ok THEN MOk([v1 EXCEPT !.items[i + 1] = rc.v], rc.dropped) ELSE rc,
                   path)))
  ELSE MergeArrLoop(ent, i + 1, DropEntry(r, Append(path, PathIndex(i)), ent[i]), path)

\* setComments.o?.push(key)
PushKey(cm, key) ==
  IF Has(cm, "o") THEN SetField(cm, "o", Append(cm.o, key)) ELSE cm

\* if (!setComments.c) setComments.c = {}; setComments.c[key] = [c.b, c.a]
SetKeyNote(cm, key, c) ==
  SetField(cm, "c", SetField(IF Has(cm, "c") THEN cm.c ELSE EmptyMap, key, PairOf(c)))

\* the member key of the value, present, with the comment entry c
MergeMember(comments, i, key, c, v1, dropped, path) ==
  Let(MergeChild(c, GetKey(v1, key), dropped, Append(path, key)), LAMBDA rc :
    MergeObjLoop(comments, i + 1,
                 IF rc.ok THEN MOk(ObjSet(v1, key, rc.v), rc.dropped) ELSE rc,
                 path))

\* the forEach of merge over comments.o, from i on (1-based)
MergeObjLoop(comments, i, r, path) ==
  IF ~r.ok \/ i > Len(comments.o) THEN r
  ELSE IF HasKey(r.v, comments.o[i]) THEN
    IF comments.o[i] \in DOMAIN comments.s
    THEN MergeMember(comments, i, comments.o[i], comments.s[comments.o[i]],
                     [r.v EXCEPT !.cm = SetKeyNote(PushKey(r.v.cm, comments.o[i]), comments.o[i],
                                                   comments.s[comments.o[i]])],
                     r.dropped, path)
    ELSE MergeObjLoop(comments, i + 1,
                      MOk([r.v EXCEPT !.cm = PushKey(r.v.cm, comments.o[i])], r.dropped), path)
  ELSE IF comments.o[i] \in DOMAIN comments.s
    THEN MergeObjLoop(comments, i + 1,
                      DropEntry(r, Append(path, comments.o[i]), comments.s[comments.o[i]]), path)
  ELSE MergeObjLoop(comments, i + 1, r, path)

\* if (path.length === 0 && comments.r) setComments.r = [comments.r.b, comments.r.a]
MergeRoot(cm0, comments, path) ==
  IF path = <<>> /\ FieldR(comments) # UndefO
  THEN SetField(cm0, "r", PairOf(comments.r)) ELSE cm0

\* if (comments.e) setComments.e = [comments.e.b, comments.e.a], for an
\* array only if (i === 0 ...)
MergeEnd(r, comments, cond) ==
  IF r.ok /\ cond /\ FieldE(comments) # UndefO
  THEN MOk([r.v EXCEPT !.cm = SetField(r.v.cm, "e", PairOf(comments.e))], r.dropped)
  ELSE r

\* the array branch of merge, cm1 the annotation setComments
MergeArray(comments, value, cm1, ent, dropped, path) ==
  MergeEnd(MergeArrLoop(ent, 0,
                        MOk([value EXCEPT !.cm = IF Has(cm1, "a") THEN cm1
                                                 ELSE SetField(cm1, "a", <<>>)],
                            dropped),
                        path),
           comments, MaxIndex(ent) = 0)

\* the object branch of merge, cm1 the annotation setComments
MergeObject(comments, value, cm1, dropped, path) ==
  MergeEnd(IF Has(comments, "o")
           THEN MergeObjLoop(comments, 1, MOk([value EXCEPT !.cm = cm1], dropped), path)
           ELSE MOk([value EXCEPT !.cm = cm1], dropped),
           comments, TRUE)

\* the name of the property that holds the annotation of a value
keyAnnotation == <<"_", "_", "C", "O", "M", "M", "E", "N", "T", "S", "_", "_">>

\* the value has an enumerable member of its own with the name of the
\* annotation property (the members the callers of this model give that
\* name are {} and null)
HasAnnotationMember(value) == value.t = "obj" /\ HasKey(value, keyAnnotation)

\* common.getComment(value) || {}: obj.__COMMENTS__ is the member of that
\* name if the object has one, be it enumerable or not
CommentOrNew(value) ==
  IF HasAnnotationMember(value) THEN [k |-> "cm"]
  ELSE IF value.cm # NoCm THEN value.cm ELSE [k |-> "cm"]

\* Object.defineProperty(obj, '__COMMENTS__', { enumerable: false, ... }) of
\* createComment: a member of that name is no longer enumerable
DefineAnnotation(value) ==
  IF HasAnnotationMember(value)
  THEN [value EXCEPT !.keys = SubSeq(value.keys, 1, KeyIndex(value.keys, keyAnnotation, 1) - 1)
                               \o SubSeq(value.keys, KeyIndex(value.keys, keyAnnotation, 1) + 1,
                                         Len(value.keys)),
                     !.vals = SubSeq(value.vals, 1, KeyIndex(value.keys, keyAnnotation, 1) - 1)
                               \o SubSeq(value.vals, KeyIndex(value.keys, keyAnnotation, 1) + 1,
                                         Len(value.vals))]
  ELSE value

\* merge(comments, value, dropped, path): the outcome
merge(comments, value, dropped, path) ==
  IF comments = UndefO THEN MOk(value, dropped)
  ELSE IF ~IsObjectLike(value) THEN dropAll(comments, MOk(value, dropped), path)
  ELSE IF value.t = "arr"
    THEN MergeArray(comments, value,
                    MergeRoot(CommentOrNew(value), comments, path),
                    IF Has(comments, "a") THEN comments.a.ent ELSE EmptyMap,
                    dropped, path)
  ELSE MergeObject(comments, DefineAnnotation(value),
                   MergeRoot(CommentOrNew(value), comments, path),
                   dropped, path)

\* s with rep in place of the character at the 0-based position i, if any
ReplaceAt(s, i, rep) ==
  IF i < 0 THEN s ELSE SubSeq(s, 1, i) \o rep \o SubSeq(s, i + 2, Len(s))

\* String.prototype.replace("\n", rep): the first occurrence only
ReplaceFirstNL(s, rep) == ReplaceAt(s, IndexOf(s, "\n"), rep)

\* comment.r, which rootComment creates when it is absent
RootPair(value) == IF Has(value.cm, "r") THEN value.cm.r ELSE <<<<>>, <<>>>>

\* if (setText !== undefined) comment.r[header] = common.forceComment(setText || "")
SetRootText(r0, setText, header) ==
  IF setText # UndefS THEN [r0 EXCEPT ![header + 1] = forceComment(OrEmpty(setText))] ELSE r0

\* rootComment(value, setText, header): [ok, v, s]; setText is never
\* undefined in a call of this module, null is written as the empty string
rootComment(value, setText, header) ==
  IF ~IsObjectLike(value) \/ value.cm = NoCm
  THEN [ok |-> FALSE, err |-> TypeError("Cannot read properties of undefined (reading 'r')")]
  ELSE
    Let(SetRootText(RootPair(value), setText, header), LAMBDA r1 :
      [ok |-> TRUE,
       v  |-> [value EXCEPT !.cm = SetField(value.cm, "r", r1)],
       s  |-> OrEmpty(r1[header + 1])])

\* one line of the orphan list for the dropped comment c, m its merged text
OrphanLine(c, m) ==
  ReplaceFirstNL(<<"#", " ">> \o Join(c.path, <<"/">>) \o <<":", " ">> \o m, <<"\\", "n", " ">>)
    \o <<"\n">>

\* the forEach of mergeComments over the dropped comments: [ok, s]
RECURSIVE OrphanLines(_, _)
OrphanLines(dropped, text) ==
  IF dropped = <<>> THEN SOk(text)
  ELSE
    Let(mergeStr(<<FieldB(Head(dropped)), FieldA(Head(dropped)), UndefS>>), LAMBDA m :
      IF ~m.ok THEN m
      ELSE OrphanLines(Tail(dropped), text \o OrphanLine(Head(dropped), m.s)))

OrphanHeading ==
  <<"\n", "#", " ", "O", "r", "p", "h", "a", "n", "e", "d", " ",
    "c", "o", "m", "m", "e", "n", "t", "s", ":", "\n">>

\* the footer of mergeComments: the dropped comments appended to the text t0
\* that rootComment(value, null, 1) returned
OrphanFooter(t0, dropped) ==
  IF ~t0.ok THEN [ok |-> FALSE, err |-> t0.err]
  ELSE Let(OrphanLines(dropped, t0.s \o OrphanHeading), LAMBDA ls :
         IF ~ls.ok THEN [ok |-> FALSE, err |-> ls.err]
         ELSE [ok |-> TRUE, v |-> rootComment(t0.v, ls.s, 1).v])

\* mergeComments(comments, value): [ok, v] with v the value after the call,
\* or [ok |-> FALSE, err] when it throws
mergeComments(comments, value) ==
  IF comments = UndefO THEN [ok |-> TRUE, v |-> value]
  ELSE
    Let(merge(comments, value, <<>>, <<>>), LAMBDA r :
      IF ~r.ok THEN [ok |-> FALSE, err |-> r.err]
      ELSE IF r.dropped = <<>> THEN [ok |-> TRUE, v |-> r.v]
      ELSE OrphanFooter(rootComment(r.v, <<>>, 1), r.dropped))

\* comments.header(value, setText) and comments.footer(value, setText), the
\* absent setText an UndefS: [ok, v, s]
header(value, setText) == rootComment(value, OrEmpty(setText), 0)

footer(value, setText) == rootComment(value, OrEmpty(setText), 1)

(***************************************************************************)
(* The library in use.  EOL is the module-level end-of-line setting of     *)
(* hjson-common.ts, the only state the library keeps between calls; the    *)
(* other variables are what a caller holds between the calls: the input of *)
(* the scenario, the options of the last parse, the text last produced by  *)
(* stringify, the outcome of the last call that yields a value, the        *)
(* extracted comment document, and the outcome of the last step.           *)
(***************************************************************************)

VARIABLES pc, EOL, input, options, text, value, document, output

vars == <<pc, EOL, input, options, text, value, document, output>>

None == [k |-> "none"]

LF == <<"\n">>

CRLF == <<"\r", "\n">>

\* os.EOL
PlatformEOLs == {LF, CRLF}

\* a variant that stores every argument
setEndOfLineAny(eol, cur) == eol

\* setEndOfLine(eol) when the setting is cur: the setting after the call
setEndOfLine(eol, cur) == IF eol = LF \/ eol = CRLF THEN eol ELSE cur

\* setEndOfLine(eol), called before the library is used
SetEndOfLine(eol) ==
  /\ pc = "start"
  /\ EOL' = setEndOfLine(eol, EOL)
  /\ UNCHANGED <<pc, input, options, text, value, document, output>>

(***************************************************************************)
(* Parsing member lists and keys.  The input is a container text built     *)
(* from a list of members, a separator and a trailer, or a text with one   *)
(* unquoted key.                                                           *)
(***************************************************************************)

MaxMembers == 2

One == VNum([m |-> 1, e |-> 0])

\* member values: src the text, v the value, bare whether the text is an
\* unquoted scalar
Atoms ==
  { [src |-> <<"1">>, v |-> One, bare |-> TRUE],
    [src |-> <<"t", "r", "u", "e">>, v |-> VBool(TRUE), bare |-> TRUE],
    [src |-> <<"\"", "x", "\"">>, v |-> VStr(<<"x">>), bare |-> FALSE],
    [src |-> <<"[", "]">>, v |-> VArr(<<>>, NoCm), bare |-> FALSE] }

KeyNames == <<<<"a">>, <<"b">>, <<"c">>, <<"d">>>>

Separators == { <<",">>, <<" ">>, <<"\n">>, <<",", "\n">>, <<",", ",">>, <<",", " ", ",">> }

Trailers == { <<>>, <<"\n">>, <<",">>, <<",", ",">>, <<",", "\n">> }

MemberLists == UNION { [1..n -> Atoms] : n \in 1..MaxMembers }

ListInputs ==
  [fam : {"list"}, kind : {"arr", "obj"}, members : MemberLists,
   sep : Separators, trail : Trailers]

KeyWords == { <<"a">>, <<"a", "b">> }

KeySpaces == { <<" ">>, <<" ", " ">>, <<"\t">> }

KeyTails == { <<>>, <<"b">>, <<"b", " ">> }

\* braces: {K: 1}; bare: K: 1; lines: K: 1, a line break, c: 2
KeyContexts == {"braces", "bare", "lines"}

KeyInputs == [fam : {"key"}, w1 : KeyWords, ws : KeySpaces, w2 : KeyTails, ctx : KeyContexts]

MaxTextLen == 4

TextChars == {"a", ":", " ", "\n", "{", "}", ","}

\* every text of at most MaxTextLen of these characters
TextInputs == [fam : {"text"}, s : UNION { [1..n -> TextChars] : n \in 0..MaxTextLen }]

ParseInputs == ListInputs \cup KeyInputs \cup TextInputs

MemberText(inp, i) ==
  IF inp.kind = "obj" THEN KeyNames[i] \o <<":">> \o inp.members[i].src
  ELSE inp.members[i].src

RenderList(inp) ==
  (IF inp.kind = "obj" THEN <<"{">> ELSE <<"[">>)
  \o Join([i \in 1..Len(inp.members) |-> MemberText(inp, i)], inp.sep)
  \o inp.trail
  \o (IF inp.kind = "obj" THEN <<"}">> ELSE <<"]">>)

KeyOf(inp) == inp.w1 \o inp.ws \o inp.w2

RenderKey(inp) ==
  LET member == KeyOf(inp) \o <<":", " ", "1">>
  IN  IF inp.ctx = "braces" THEN <<"{">> \o member \o <<"}">>
      ELSE IF inp.ctx = "bare" THEN member
      ELSE member \o <<"\n", "c", ":", " ", "2">>

Render(inp) ==
  IF inp.fam = "list" THEN RenderList(inp)
  ELSE IF inp.fam = "key" THEN RenderKey(inp)
  ELSE inp.s

\* the value the member list denotes
Expected(inp) ==
  LET n == Len(inp.members)
      vals == [i \in 1..n |-> inp.members[i].v]
  IN  IF inp.kind = "obj" THEN VObj(SubSeq(KeyNames, 1, n), vals, NoCm)
      ELSE VArr(vals, NoCm)

ParseOptionSets ==
  { NoOpt, [legacyRoot |-> FALSE], [keepWhitespaceAndComments |-> TRUE], [keepWsc |-> TRUE] }

InitParse ==
  /\ pc = "start"
  /\ EOL \in PlatformEOLs
  /\ input \in ParseInputs
  /\ options = None /\ text = None /\ value = None /\ document = None /\ output = None

\* Hjson.parse(text, options)
Parse ==
  /\ pc = "start"
  /\ input.fam \in {"list", "key", "text"}
  /\ \E opt \in ParseOptionSets :
       /\ options' = opt
       /\ value' = parse(Render(input), opt)
  /\ pc' = "parsed"
  /\ UNCHANGED <<EOL, input, text, document, output>>

\* Hjson.rt.parse(text)
RtParse ==
  /\ pc = "start"
  /\ input.fam \in {"list", "key", "text"}
  /\ options' = [rt |-> TRUE]
  /\ value' = rtParse(Render(input), NoOpt)
  /\ pc' = "parsed"
  /\ UNCHANGED <<EOL, input, text, document, output>>

NextParse == Parse \/ RtParse

SpecParse == InitParse /\ [][NextParse]_vars

(***************************************************************************)
(* The round trip of a value: stringify with default options, then parse   *)
(* the text, or scan the member again where the stringifier wrote it.      *)
(***************************************************************************)

MaxStrLen == 2

StringChars == {"a", "5", "#", "\n", " ", ","}

Strings == UNION { [1..n -> StringChars] : n \in 0..MaxStrLen }

Scalars == {VNull, VBool(TRUE), One} \cup { VStr(s) : s \in Strings }

\* root: x; member: {a: x}; element: [x]; pair: [x, x]; nested: {a: {b: x}}
Shapes == {"root", "member", "element", "pair", "nested"}

ValueInputs == [fam : {"value"}, shape : Shapes, x : Scalars]

Build(inp) ==
  CASE inp.shape = "root" -> inp.x
    [] inp.shape = "member" -> VObj(<<<<"a">>>>, <<inp.x>>, NoCm)
    [] inp.shape = "element" -> VArr(<<inp.x>>, NoCm)
    [] inp.shape = "pair" -> VArr(<<inp.x, inp.x>>, NoCm)
    [] inp.shape = "nested" -> VObj(<<<<"a">>>>, <<VObj(<<<<"b">>>>, <<inp.x>>, NoCm)>>, NoCm)

\* the offset in the output at which the stringifier writes the first member
\* value of {a: x}, [x] or [x, x]: after the bracket, the end of line, the
\* indentation and, for an object, the key, the colon and a blank
MemberOffset(inp, eol) ==
  1 + Len(eol) + 2 + (IF inp.shape = "member" THEN 3 ELSE 0)

InitRoundTrip ==
  /\ pc = "start"
  /\ EOL \in PlatformEOLs
  /\ input \in ValueInputs
  /\ options = None /\ text = None /\ value = None /\ document = None /\ output = None

\* Hjson.stringify(value)
Stringify ==
  /\ pc = "start"
  /\ input.fam = "value"
  /\ text' = stringify(Build(input), NoOpt, EOL)
  /\ pc' = "stringified"
  /\ UNCHANGED <<EOL, input, options, value, document, output>>

\* Hjson.parse(text) of the text that stringify returned
Reparse ==
  /\ pc = "stringified"
  /\ text.ok
  /\ value' = parse(text.s, NoOpt)
  /\ pc' = "reparsed"
  /\ UNCHANGED <<EOL, input, options, text, document, output>>

\* the quoteless scan of the parser at the place of the first member value
Rescan ==
  /\ pc = "stringified"
  /\ text.ok
  /\ input.fam = "value"
  /\ input.shape \in {"member", "element", "pair"}
  /\ value' = tfnns(ParseContext(text.s, NoOpt),
                    [at |-> MemberOffset(input, EOL) + 1,
                     ch |-> CharAt(text.s, MemberOffset(input, EOL))])
  /\ pc' = "rescanned"
  /\ UNCHANGED <<EOL, input, options, text, document, output>>

NextRoundTrip == Stringify \/ Reparse \/ Rescan

SpecRoundTrip == InitRoundTrip /\ [][NextRoundTrip]_vars

(***************************************************************************)
(* Texts with comments.  A text has two members, the first a number or a   *)
(* nested object, and a comment at each of the places chosen by the flags. *)
(***************************************************************************)

\* obj: {a: 1, b: 2}; arr: [1, 2]; objobj: {a: {c: 3}, b: 2};
\* arrobj: [{c: 3}, 2]
DocShapes == {"obj", "arr", "objobj", "arrobj"}

DocInputs ==
  [fam : {"doc"}, shape : DocShapes, head : BOOLEAN, pre : BOOLEAN, more : BOOLEAN,
   keep : BOOLEAN, bye : BOOLEAN, end : BOOLEAN, foot : BOOLEAN]

IsNested(inp) == inp.shape \in {"objobj", "arrobj"}

IsObj(inp) == inp.shape \in {"obj", "objobj"}

Line(flag, s) == IF flag THEN <<s>> ELSE <<>>

Note(flag, s) == IF flag THEN s ELSE <<>>

\* the lines of the first member
FirstMember(inp) ==
  IF IsNested(inp)
  THEN <<(IF IsObj(inp) THEN <<" ", " ", "a", ":", " ", "{">> ELSE <<" ", " ", "{">>),
         <<" ", " ", " ", " ", "c", ":", " ", "3">> \o Note(inp.keep, <<" ", "#", " ", "k", "e", "e", "p">>)>>
       \o Line(inp.end, <<" ", " ", " ", " ", "#", " ", "e", "n", "d">>)
       \o <<<<" ", " ", "}">>>>
  ELSE <<(IF IsObj(inp) THEN <<" ", " ", "a", ":", " ", "1">> ELSE <<" ", " ", "1">>)
         \o Note(inp.keep, <<" ", "#", " ", "k", "e", "e", "p">>)>>

\* the line of the second member
SecondMember(inp) ==
  (IF IsObj(inp) THEN <<" ", " ", "b", ":", " ", "2">> ELSE <<" ", " ", "2">>)
  \o Note(inp.bye, <<" ", "#", " ", "b", "y", "e">>)

RenderDoc(inp) ==
  Join(Line(inp.head, <<"#", " ", "h", "e", "a", "d">>)
       \o <<(IF IsObj(inp) THEN <<"{">> ELSE <<"[">>)>>
       \o Line(inp.pre, <<" ", " ", "#", " ", "p", "r", "e">>)
       \o Line(inp.more, <<" ", " ", "#", " ", "t", "w", "o">>)
       \o Line(inp.more, <<" ", " ", "#", " ", "t", "h", "r", "e", "e">>)
       \o FirstMember(inp)
       \o <<SecondMember(inp)>>
       \o Line(inp.end /\ ~IsNested(inp), <<" ", " ", "#", " ", "e", "n", "d">>)
       \o <<(IF IsObj(inp) THEN <<"}">> ELSE <<"]">>)>>
       \o Line(inp.foot, <<"#", " ", "f", "o", "o", "t">>),
       <<"\n">>)

\* the comments of the text
DocComments(inp) ==
  {c \in { <<inp.head, <<"#", " ", "h", "e", "a", "d">>>>,
           <<inp.pre,  <<"#", " ", "p", "r", "e">>>>,
           <<inp.more, <<"#", " ", "t", "w", "o">>>>,
           <<inp.more, <<"#", " ", "t", "h", "r", "e", "e">>>>,
           <<inp.keep, <<"#", " ", "k", "e", "e", "p">>>>,
           <<inp.bye,  <<"#", " ", "b", "y", "e">>>>,
           <<inp.end,  <<"#", " ", "e", "n", "d">>>>,
           <<inp.foot, <<"#", " ", "f", "o", "o", "t">>>> } : c[1]}

InitDoc ==
  /\ pc = "start"
  /\ EOL \in PlatformEOLs
  /\ input \in DocInputs
  /\ options = None /\ text = None /\ value = None /\ document = None /\ output = None

\* Hjson.parse(text, {keepWsc: true})
ParseKeepWsc ==
  /\ pc = "start"
  /\ input.fam = "doc"
  /\ options' = [keepWsc |-> TRUE]
  /\ value' = parse(RenderDoc(input), [keepWsc |-> TRUE])
  /\ pc' = "annotated"
  /\ UNCHANGED <<EOL, input, text, document, output>>

\* Hjson.rt.stringify(value) of the annotated value
RtStringify ==
  /\ pc = "annotated"
  /\ value.ok
  /\ text' = rtStringify(value.v, NoOpt, EOL)
  /\ pc' = "canonical"
  /\ UNCHANGED <<EOL, input, options, value, document, output>>

\* Hjson.rt.parse(text) of the text that rt.stringify returned
RtReparse ==
  /\ pc = "canonical"
  /\ text.ok
  /\ value' = rtParse(text.s, NoOpt)
  /\ pc' = "rtparsed"
  /\ UNCHANGED <<EOL, input, options, text, document, output>>

\* Hjson.rt.stringify(value) of the value that rt.parse returned
RtStringifyAgain ==
  /\ pc = "rtparsed"
  /\ value.ok
  /\ output' = rtStringify(value.v, NoOpt, EOL)
  /\ pc' = "done"
  /\ UNCHANGED <<EOL, input, options, text, value, document>>

NextRt == ParseKeepWsc \/ RtStringify \/ RtReparse \/ RtStringifyAgain

SpecRt == InitDoc /\ [][NextRt]_vars

(***************************************************************************)
(* Extracting the comments, editing the value, merging the comments back.  *)
(***************************************************************************)

\* the paths of the members of v: keys, and indices from 0
RECURSIVE Paths(_)
Paths(v) ==
  IF v.t = "obj"
  THEN UNION { {<<v.keys[i]>>} \cup { <<v.keys[i]>> \o p : p \in Paths(v.vals[i]) }
               : i \in 1..Len(v.keys) }
  ELSE IF v.t = "arr"
  THEN UNION { {<<i - 1>>} \cup { <<i - 1>> \o p : p \in Paths(v.items[i]) }
               : i \in 1..Len(v.items) }
  ELSE {}

\* s without its element i
Without(s, i) == SubSeq(s, 1, i - 1) \o SubSeq(s, i + 1, Len(s))

\* delete v[k] of an object, v.splice(k, 1) of an array, at the path p
RECURSIVE DeleteAt(_, _)
DeleteAt(v, p) ==
  IF v.t = "obj"
  THEN IF Len(p) = 1
       THEN [v EXCEPT !.keys = Without(v.keys, KeyIndex(v.keys, p[1], 1)),
                      !.vals = Without(v.vals, KeyIndex(v.keys, p[1], 1))]
       ELSE ObjSet(v, p[1], DeleteAt(GetKey(v, p[1]), Tail(p)))
  ELSE IF Len(p) = 1
       THEN [v EXCEPT !.items = Without(v.items, p[1] + 1)]
       ELSE [v EXCEPT !.items[p[1] + 1] = DeleteAt(v.items[p[1] + 1], Tail(p))]

\* Hjson.comments.extract(value)
Extract ==
  /\ pc = "annotated"
  /\ value.ok
  /\ document' = extract(value.v).doc
  /\ value' = extract(value.v).v
  /\ pc' = "extracted"
  /\ UNCHANGED <<EOL, input, options, text, output>>

\* the caller deletes a key or an element of the value
Delete ==
  /\ pc = "extracted"
  /\ \E p \in Paths(value) : value' = DeleteAt(value, p)
  /\ UNCHANGED <<pc, EOL, input, options, text, document, output>>

\* the caller copies the object into a new object that has a member
\* named __COMMENTS__: { ...value, __COMMENTS__: {} } or null in its place
Copy ==
  /\ pc = "extracted"
  /\ value.t = "obj" /\ ~HasKey(value, keyAnnotation)
  /\ \E x \in {VObj(<<>>, <<>>, NoCm), VNull} :
        value' = [ObjSet(value, keyAnnotation, x) EXCEPT !.cm = NoCm]
  /\ UNCHANGED <<pc, EOL, input, options, text, document, output>>

\* Hjson.comments.merge(document, value)
Merge ==
  /\ pc = "extracted"
  /\ value' = mergeComments(document, value)
  /\ pc' = "merged"
  /\ UNCHANGED <<EOL, input, options, text, document, output>>

\* Hjson.comments.extract(value) of the merged value
ExtractAgain ==
  /\ pc = "merged"
  /\ value.ok
  /\ output' = extract(value.v).doc
  /\ pc' = "reextracted"
  /\ UNCHANGED <<EOL, input, options, text, value, document>>

NextMerge == ParseKeepWsc \/ Extract \/ Delete \/ Copy \/ Merge \/ ExtractAgain

SpecMerge == InitDoc /\ [][NextMerge]_vars

WhitespaceInKey == "Found whitespace in your key name (use quotes to include)"

\* the member list has no separator but white space
WhiteSeparated(inp) == inp.fam = "list" /\ inp.trail = <<>> /\ inp.sep \in {<<" ">>, <<"\n">>}

\* an unquoted scalar is followed on its line by a further member
BareBeforeBlank(inp) ==
  inp.sep = <<" ">> /\ \E i \in 1..(Len(inp.members) - 1) : inp.members[i].bare

ParsedTo(v) == value.ok /\ Payload(value.v) = v

\* C7 as stated: a member list separated only by white space, on separate
\* lines or on one line, parses to the value of the comma-separated list.
C7_CommasOptional ==
  (pc = "parsed" /\ WhiteSeparated(input)) => ParsedTo(Expected(input))

\* C7 amended: for members that are numbers, keywords, quoted strings or
\* containers, the comma-separated list and the list with one member per
\* line parse to the value of the list; on one line the comma may be left
\* out after a quoted string or a container; an unquoted scalar followed on
\* its line by a further member takes the rest of the line into a string, so
\* that the list does not parse to the value of its members, and is a syntax
\* error when the closing bracket is on that line.
C7_CommasOptionalByLine ==
  (pc = "parsed" /\ input.fam = "list" /\ input.trail \in {<<>>, <<"\n">>}) =>
     /\ input.sep \in {<<",">>, <<"\n">>, <<",", "\n">>} => ParsedTo(Expected(input))
     /\ (input.sep = <<" ">> /\ ~BareBeforeBlank(input)) => ParsedTo(Expected(input))
     /\ BareBeforeBlank(input) => ~ParsedTo(Expected(input))
     /\ (BareBeforeBlank(input) /\ input.trail = <<>>)
          => (~value.ok /\ value.err.kind = "Error")

\* {a:1 b:2} has been parsed, and rejected
C7_Witness ==
  /\ pc = "parsed" /\ input.fam = "list" /\ input.kind = "obj"
  /\ Render(input) = <<"{", "a", ":", "1", " ", "b", ":", "1", "}">>
  /\ ~value.ok

\* two commas in a row, between members or before the closing bracket
DoubleComma(inp) ==
  \/ inp.trail = <<",", ",">>
  \/ Len(inp.members) > 1 /\ inp.sep \in {<<",", ",">>, <<",", " ", ",">>}

\* one separator between members that does not hide a member
SingleSeparator(inp) ==
  \/ Len(inp.members) = 1
  \/ inp.sep \in {<<",">>, <<"\n">>, <<",", "\n">>}

EmbeddedSpace(inp) == inp.fam = "key" /\ inp.w2 # <<>>

\* the offset where the white space of the key begins
SpaceOffset(inp) == (IF inp.ctx = "braces" THEN 1 ELSE 0) + Len(inp.w1)

WhitespaceError(inp) ==
  /\ ~value.ok
  /\ value.err.kind = "Error"
  /\ value.err.msg = WhitespaceInKey
  /\ value.err.line = 1
  /\ value.err.col = SpaceOffset(inp)

\* C9 as stated: with default options every input with white space embedded
\* in an unquoted key fails with a syntax error at the white space.
C9_SpaceInKey ==
  (pc = "parsed" /\ options = NoOpt /\ EmbeddedSpace(input)) => WhitespaceError(input)

\* C9 amended: with default options a key with embedded white space is a
\* syntax error at the white space when the member is inside braces or the
\* input has a further line; an input of that one line alone is returned as
\* the string of the line; white space next to the colon is accepted.
C9_SpaceInKeyOrString ==
  (pc = "parsed" /\ options = NoOpt /\ input.fam = "key") =>
     /\ (EmbeddedSpace(input) /\ input.ctx \in {"braces", "lines"}) => WhitespaceError(input)
     /\ (EmbeddedSpace(input) /\ input.ctx = "bare")
          => (value.ok /\ value.v = VStr(Trim(Render(input))))
     /\ input.w2 = <<>> =>
          ParsedTo(IF input.ctx = "lines"
                   THEN VObj(<<input.w1, <<"c">>>>, <<One, VNum([m |-> 2, e |-> 0])>>, NoCm)
                   ELSE VObj(<<input.w1>>, <<One>>, NoCm))

\* {a b: 1} has been parsed, and rejected at offset 2
C9_Witness ==
  /\ pc = "parsed" /\ options = NoOpt /\ input.fam = "key"
  /\ Render(input) = <<"{", "a", " ", "b", ":", " ", "1", "}">>
  /\ ~value.ok /\ value.err.col = 2

\* comment preservation was requested through the public interface
Requested(opt) == opt = [rt |-> TRUE] \/ Opt(opt, "keepWhitespaceAndComments", FALSE)

\* every array and object of v has an annotation that records its members
RECURSIVE AllAnnotated(_)
AllAnnotated(v) ==
  IF v.t = "arr"
    THEN /\ v.cm # NoCm /\ Has(v.cm, "a")
         /\ Len(v.items) > 0 => Len(v.cm.a) = Len(v.items)
         /\ \A i \in 1..Len(v.items) : AllAnnotated(v.items[i])
  ELSE IF v.t = "obj"
    THEN /\ v.cm # NoCm /\ Has(v.cm, "c") /\ Has(v.cm, "o")
         /\ v.cm.o = v.keys
         /\ \A i \in 1..Len(v.vals) : AllAnnotated(v.vals[i])
  ELSE TRUE

\* C4: with comment preservation requested through the public option every
\* array and object of the parsed value carries an annotation; without the
\* request none does.
C4_AnnotationOnRequest ==
  (pc = "parsed" /\ value.ok /\ ~Has(options, "keepWsc")) =>
     IF Requested(options) THEN AllAnnotated(value.v) ELSE value.v = Payload(value.v)

\* C1: for every value built from null, booleans, numbers, strings, arrays
\* and objects, parsing the text that stringify returns with default options
\* gives the value back, key order and element order included.
C1_RoundTrip ==
  pc = "reparsed" => (value.ok /\ value.v = Build(input))

\* the first member value is a string and the output has it, as it is, where
\* the member value is written, up to the end of the line
EmittedUnquoted ==
  /\ input.x.t = "str"
  /\ Slice(text.s, MemberOffset(input, EOL),
           MemberOffset(input, EOL) + Len(input.x.s) + Len(EOL)) = input.x.s \o EOL

\* C5: a string that stringify writes without quotes as a member value or
\* an array element is read back by the quoteless scan as that string.
C5_QuotelessSafe ==
  (pc = "rescanned" /\ EmittedUnquoted) => (value.ok /\ value.v = input.x)

\* the value has a string with a line feed below the root
NewlineMember == input.shape # "root" /\ input.x.t = "str" /\ Contains(input.x.s, "\n")

\* C6: a string with a line feed that is not the root value is written as a
\* triple-quoted block, and parsing the output gives the string back.
C6_MultilineBlock ==
  (pc = "reparsed" /\ NewlineMember) =>
     (HasTripleQuote(text.s) /\ value.ok /\ value.v = Build(input))

\* p occurs in s
IsSubstring(p, s) == \E i \in 0..(Len(s) - Len(p)) : SubSeq(s, i + 1, i + Len(p)) = p

\* s is a string that holds a comment
IsText(s) == s # UndefS /\ s # ObjS /\ Trim(s) # <<>>

\* the comments b and a of a node of a document, trimmed
OwnTexts(d) ==
  IF d = UndefO THEN {} ELSE { Trim(s) : s \in { t \in {FieldB(d), FieldA(d)} : IsText(t) } }

\* the entries of a node of a document: the keys or indices, as path elements
EntryKeys(d) ==
  IF Has(d, "s") THEN DOMAIN d.s
  ELSE IF Has(d, "a") /\ d.a.ty = "map" THEN DOMAIN d.a.ent
  ELSE {}

EntryOf(d, key) == IF Has(d, "s") THEN d.s[key] ELSE d.a.ent[key]

\* every comment held in a document
RECURSIVE DocTexts(_)
DocTexts(d) ==
  IF d = UndefO THEN {}
  ELSE OwnTexts(d) \cup OwnTexts(FieldE(d)) \cup OwnTexts(FieldR(d))
       \cup UNION { DocTexts(EntryOf(d, key)) : key \in EntryKeys(d) }

\* the strings of a sequence of annotation entries
PairTexts(pairs) ==
  UNION { { s \in {pairs[i][j] : j \in 1..Len(pairs[i])} : IsText(s) } : i \in 1..Len(pairs) }

\* every comment in the annotations of a value
RECURSIVE NoteTexts(_)
NoteTexts(v) ==
  IF v.t = "arr"
  THEN (IF v.cm = NoCm THEN {}
        ELSE PairTexts((IF Has(v.cm, "a") THEN v.cm.a ELSE <<>>)
                       \o (IF Has(v.cm, "e") THEN <<v.cm.e>> ELSE <<>>)
                       \o (IF Has(v.cm, "r") THEN <<v.cm.r>> ELSE <<>>)))
       \cup UNION { NoteTexts(v.items[i]) : i \in 1..Len(v.items) }
  ELSE IF v.t = "obj"
  THEN (IF v.cm = NoCm THEN {}
        ELSE PairTexts((IF Has(v.cm, "c")
                        THEN [i \in 1..Len(v.keys) |->
                                IF v.keys[i] \in DOMAIN v.cm.c THEN v.cm.c[v.keys[i]] ELSE <<>>]
                        ELSE <<>>)
                       \o (IF Has(v.cm, "e") THEN <<v.cm.e>> ELSE <<>>)
                       \o (IF Has(v.cm, "r") THEN <<v.cm.r>> ELSE <<>>)))
       \cup UNION { NoteTexts(v.vals[i]) : i \in 1..Len(v.vals) }
  ELSE {}

\* C2: after merge(D, v2) every comment of D is in the annotations of v2 or
\* in its footer, whatever keys and elements were deleted, and extracting
\* v2 again gives a document that holds every comment of D.
C2_MergeKeepsComments ==
  /\ pc = "merged" =>
       (value.ok /\ \A c \in DocTexts(document) :
                      \E s \in NoteTexts(value.v) : IsSubstring(c, s))
  /\ pc = "reextracted" =>
       \A c \in DocTexts(document) : \E s \in DocTexts(output) : IsSubstring(c, s)

\* C3: a text that rt.stringify returned is parsed by rt.parse, and
\* rt.stringify of the result returns the text again, with every comment.
C3_CanonicalRoundTrip ==
  /\ pc = "rtparsed" => value.ok
  /\ pc = "done" => (output.ok /\ output.s = text.s)

\* a key or index of the node d of a document as it is written in a path
PathElement(d, key) == IF Has(d, "s") THEN key ELSE PathIndex(key)

\* the value has a member for the entry key of the node d
HasMember(d, v, key) ==
  IF Has(d, "s") THEN v.t = "obj" /\ HasKey(v, key)
  ELSE v.t = "arr" /\ key < Len(v.items)

MemberOf(v, key) == IF v.t = "obj" THEN GetKey(v, key) ELSE v.items[key + 1]

\* the comments of an entry and of everything below it, with their paths
RECURSIVE AllUnder(_, _)
AllUnder(d, path) ==
  { [path |-> path, text |-> t] : t \in OwnTexts(d) \cup OwnTexts(FieldE(d)) }
  \cup UNION { AllUnder(EntryOf(d, key), Append(path, PathElement(d, key)))
               : key \in EntryKeys(d) }

\* the comments of the entries of a document that have no member in the value
RECURSIVE Orphans(_, _, _)
Orphans(d, v, path) ==
  UNION { IF HasMember(d, v, key)
          THEN Orphans(EntryOf(d, key), MemberOf(v, key), Append(path, PathElement(d, key)))
          ELSE AllUnder(EntryOf(d, key), Append(path, PathElement(d, key)))
          : key \in EntryKeys(d) }

\* the footer of a value
Footer(v) ==
  IF IsObjectLike(v) /\ v.cm # NoCm /\ Has(v.cm, "r") THEN OrEmpty(v.cm.r[2]) ELSE <<>>

\* the footer has a line for the orphan o: its path and its text
OrphanListed(o, foot) ==
  \E i \in 1..Len(SplitNL(foot)) :
     /\ StartsWith(SplitNL(foot)[i], <<"#", " ">> \o Join(o.path, <<"/">>) \o <<":", " ">>)
     /\ IsSubstring(o.text, SplitNL(foot)[i])

\* C10: after merge the footer of the value has a section of orphaned
\* comments with a line, path and text, for every comment of an entry of
\* the document, at any depth, whose key or index the value no longer has.
C10_OrphansInFooter ==
  pc = "merged" =>
    /\ value.ok
    /\ Orphans(document, value.v, <<>>) # {} =>
         IsSubstring(SubSeq(OrphanHeading, 2, Len(OrphanHeading) - 1), Footer(value.v))
    /\ \A o \in Orphans(document, value.v, <<>>) : OrphanListed(o, Footer(value.v))

\* the header of a value
Header(v) ==
  IF IsObjectLike(v) /\ v.cm # NoCm /\ Has(v.cm, "r") THEN OrEmpty(v.cm.r[1]) ELSE <<>>

\* merge listed at least one orphan and the document has a root footer
OrphansAndFooter ==
  /\ pc = "merged" /\ value.ok
  /\ IsSubstring(SubSeq(OrphanHeading, 2, Len(OrphanHeading) - 1), Footer(value.v))
  /\ Truthy(FieldA(FieldR(document)))

\* C11: when merge lists orphans and the document has a root footer, the
\* footer of the value is the footer of the document followed by the section
\* of orphaned comments, and the header is the header of the document.
C11_FooterAppended ==
  OrphansAndFooter =>
    /\ StartsWith(Footer(value.v), FieldA(FieldR(document)))
    /\ Header(value.v) = OrEmpty(FieldB(FieldR(document)))

\* C12: merge does not change the payload of the value: its keys, their
\* order, its elements and its scalars, at every depth, are after merge what
\* they were before.
C12_PayloadUnchanged ==
  [][(Merge /\ value'.ok) => Payload(value'.v) = Payload(value)]_vars

\* the root text does not open with a brace or a bracket
BareRoot(txt) ==
  white(txt, resetAt).ch \notin {"{", "["}

\* the text as the body of an object without braces, to the end of the text
AsObjectBody(txt) ==
  checkTrailing(ParseContext(txt, NoOpt),
                object(ParseContext(txt, NoOpt), white(txt, resetAt), TRUE), <<>>)

\* the text from offset 0 as a single value, to the end of the text
AsSingleValue(txt) ==
  checkTrailing(ParseContext(txt, NoOpt), parseValue(ParseContext(txt, NoOpt), resetAt), <<>>)

\* C13: with legacyRoot, a text that does not open with a brace or a bracket
\* is parsed as the body of an object; if that fails it is parsed again from
\* offset 0 as a single value, which is the result if it succeeds with no
\* trailing characters; if that fails too the error is that of the object
\* body.
C13_LegacyRootFallback ==
  (pc = "parsed" /\ options = NoOpt /\ BareRoot(Render(input))) =>
     /\ AsObjectBody(Render(input)).ok =>
          (value.ok /\ value.v = AsObjectBody(Render(input)).v /\ value.v.t = "obj")
     /\ (~AsObjectBody(Render(input)).ok /\ AsSingleValue(Render(input)).ok) =>
          (value.ok /\ value.v = AsSingleValue(Render(input)).v)
     /\ (~AsObjectBody(Render(input)).ok /\ ~AsSingleValue(Render(input)).ok) =>
          (~value.ok /\ value.err = AsObjectBody(Render(input)).err)

\* "a b: 1" with a further line "c: 2": the body of an object fails at the
\* white space in the key, the single value fails at the trailing characters
\* and the error is the first one
C13_Witness ==
  /\ pc = "parsed" /\ options = NoOpt /\ input.fam = "key" /\ input.ctx = "lines"
  /\ ~AsObjectBody(Render(input)).ok /\ ~AsSingleValue(Render(input)).ok
  /\ AsSingleValue(Render(input)).err.msg = "Syntax error, found trailing characters"
  /\ ~value.ok /\ value.err.msg = WhitespaceInKey

\* the number of line breaks among the first n characters of the text
RECURSIVE BreaksBefore(_, _)
BreaksBefore(txt, n) ==
  IF n <= 0 THEN 0
  ELSE (IF n <= Len(txt) /\ txt[n] = "\n" THEN 1 ELSE 0) + BreaksBefore(txt, n - 1)

\* the offset of the first character of the line that holds the offset n
RECURSIVE LineStart(_, _)
LineStart(txt, n) ==
  IF n <= 0 THEN 0
  ELSE IF n <= Len(txt) /\ txt[n] = "\n" THEN n
  ELSE LineStart(txt, n - 1)

\* C14: a parse error reports its offset as a line counted from 1, which is
\* 1 + the number of line breaks before the offset, and a column counted
\* from 0 within that line.
C14_LineColumn ==
  (pc = "parsed" /\ ~value.ok /\ value.err.kind = "Error") =>
     /\ value.err.line = 1 + BreaksBefore(Render(input), value.err.at - 1)
     /\ value.err.col = (value.err.at - 1) - LineStart(Render(input), value.err.at - 1)

(***************************************************************************)
(* Stringifying with options.  The value is one of the shapes of the round *)
(* trip around a scalar, a non-finite number, undefined or a function, or  *)
(* an object with one key; the options select the separator, the end of    *)
(* line, the comments, the quoting, the condensed form or the DSF hooks.   *)
(***************************************************************************)

\* NaN, Infinity or -Infinity
VNonFinite == [t |-> "nonfinite"]

VFunction == [t |-> "function"]

SvStrings == { <<"a">>, <<"a", "\n", "b">>, <<"a", " ", "b">> }

SvScalars ==
  {VNull, VBool(TRUE), One, VNonFinite, VUndef, VFunction} \cup { VStr(s) : s \in SvStrings }

\* the results of a stringify hook: undefined, the empty text, texts with a
\* quote in front and texts with a punctuator
DsfResults ==
  { UndefS, <<>>, <<"x">>, <<"'", "x">>, <<"\"", "x">>, <<"x", "\"">>, <<"x", "{">>,
    <<"x", "}">>, <<"x", "[">>, <<"x", "]">>, <<"x", ",">>, <<"x", ":">> }

\* the hook p answers r for a number; the hook q answers y for a number
\* and for null
HookP(r) == [name |-> <<"p">>, on |-> {"num"}, r |-> r]

HookQ == [name |-> <<"q">>, on |-> {"num", "null"}, r |-> <<"y">>]

Nameless == [name |-> <<>>, on |-> {"num"}, r |-> <<"x">>]

DsfLists ==
  { <<HookP(r)>> : r \in DsfResults } \cup { <<HookP(r), HookQ>> : r \in DsfResults }
    \cup { <<Nameless>> }

PlainOptions ==
  { NoOpt, [separator |-> TRUE], [eol |-> <<"\r", "\n">>], [keepWhitespaceAndComments |-> TRUE],
    [condense |-> 40], [quotes |-> "all"] }

StringifyOptionSets == PlainOptions \cup { [dsf |-> d] : d \in DsfLists }

MaxKeyLen == 2

KeyChars == {"a", "1", " ", ":", "#", "'", "/", "{", ","}

KvKeys ==
  UNION { [1..n -> KeyChars] : n \in 0..MaxKeyLen }
    \cup { kwNull, kwTrue, <<"a", " ", "b">>, <<"a", "/", "/">> }

SvInputs == [fam : {"sv"}, shape : Shapes, x : SvScalars, head : BOOLEAN]

\* the object {key: null}
KvInputs == [fam : {"kv"}, key : KvKeys]

HeadText == <<"#", " ", "h">>

\* the annotation that the parser leaves on a container below a header
\* comment
RootAnnotation(v) ==
  IF v.t = "arr" THEN [k |-> "cm", a |-> <<>>, r |-> <<HeadText, <<>>>>]
  ELSE [k |-> "cm", c |-> EmptyMap, o |-> v.keys, r |-> <<HeadText, <<>>>>]

WithHeader(v, head) ==
  IF head /\ IsObjectLike(v) THEN [v EXCEPT !.cm = RootAnnotation(v)] ELSE v

BuildSv(inp) ==
  IF inp.fam = "kv" THEN VObj(<<inp.key>>, <<VNull>>, NoCm)
  ELSE WithHeader(Build(inp), inp.head)

InitStringify ==
  /\ pc = "start"
  /\ EOL \in PlatformEOLs
  /\ input \in SvInputs \cup KvInputs
  /\ options \in StringifyOptionSets
  /\ input.fam = "kv" => options = NoOpt
  /\ text = None /\ value = None /\ document = None /\ output = None

\* Hjson.stringify(value, options)
StringifyOptions ==
  /\ pc = "start"
  /\ input.fam \in {"sv", "kv"}
  /\ text' = stringify(BuildSv(input), options, EOL)
  /\ pc' = "stringified"
  /\ UNCHANGED <<EOL, input, options, value, document, output>>

NextStringify == StringifyOptions \/ Reparse

SpecStringify == InitStringify /\ [][NextStringify]_vars

\* a value that is not null, a boolean, a finite number, a string, an array
\* or an object
Degraded(v) == v.t \in {"nonfinite", "undefined", "function"}

\* the input with null in the place of a degraded scalar
Nullified(inp) == [inp EXCEPT !.x = IF Degraded(@) THEN VNull ELSE @]

\* C15: without DSF hooks stringify returns a text for every value; a
\* non-finite number, undefined or a function, at the root or as a member or
\* an element, is written as the literal null, and the rest of the value is
\* written as it is for the same value with null in that place.
C15_TotalAndNull ==
  (pc = "stringified" /\ input.fam = "sv" /\ ~Has(options, "dsf")) =>
     /\ text.ok
     /\ (input.shape = "root" /\ Degraded(input.x)) => text.s = kwNull
     /\ Degraded(input.x) => IsSubstring(kwNull, text.s)
     /\ text = stringify(BuildSv(Nullified(input)), options, EOL)

C15_Witness ==
  /\ pc = "stringified" /\ input.fam = "sv" /\ options = NoOpt
  /\ input.shape = "pair" /\ input.x = VNonFinite /\ ~input.head
  /\ text.ok /\ text.s = <<"[">> \o EOL \o <<" ", " ">> \o kwNull \o <<",">> \o EOL
                           \o <<" ", " ">> \o kwNull \o EOL \o <<"]">>

\* the index of the first hook from i on that answers for the value v with
\* a defined result, 0 if there is none
RECURSIVE FirstAnswer(_, _, _)
FirstAnswer(dsf, v, i) ==
  IF i > Len(dsf) THEN 0
  ELSE IF v.t \in dsf[i].on /\ dsf[i].r # UndefS THEN i
  ELSE FirstAnswer(dsf, v, i + 1)

\* a hook result that must be refused: empty, a quote in front, or one of
\* the characters { } [ ] , "
Refused(r) ==
  \/ r = <<>>
  \/ r[1] \in {"\"", "'"}
  \/ \E i \in 1..Len(r) : r[i] \in {"{", "}", "[", "]", ",", "\""}

\* the text of the input when the token r stands for its scalar
AroundToken(inp, r, eol) ==
  CASE inp.shape = "root" -> r
    [] inp.shape = "member" -> <<"{">> \o eol \o <<" ", " ", "a", ":", " ">> \o r \o eol \o <<"}">>
    [] inp.shape = "element" -> <<"[">> \o eol \o <<" ", " ">> \o r \o eol \o <<"]">>
    [] inp.shape = "pair" ->
         <<"[">> \o eol \o <<" ", " ">> \o r \o <<",">> \o eol \o <<" ", " ">> \o r \o eol \o <<"]">>
    [] inp.shape = "nested" -> <<"b", ":", " ">> \o r \o eol

HookAnswers ==
  /\ pc = "stringified" /\ input.fam = "sv"
  /\ Has(options, "dsf") /\ MatchesDsf(options.dsf)
  /\ FirstAnswer(options.dsf, input.x, 1) > 0

\* C16: when a stringify hook answers for a value with a defined result r,
\* stringify throws an error that names the hook if r is empty, starts with
\* " or ', or contains one of { } [ ] , "; otherwise r is the token of the
\* value, untouched, and neither a later hook nor the default formatting is
\* applied.
C16_DsfResultChecked ==
  HookAnswers =>
    LET hook == options.dsf[FirstAnswer(options.dsf, input.x, 1)]
    IN  IF Refused(hook.r)
        THEN ~text.ok /\ text.err.kind = "Error" /\ text.err.plugin = hook.name
        ELSE /\ text.ok
             /\ IF input.shape = "nested" THEN IsSubstring(AroundToken(input, hook.r, EOL), text.s)
                ELSE text.s = AroundToken(input, hook.r, EOL)

\* the offset of the first character of s from i on that is not a blank or
\* a line break, 0 if there is none
RECURSIVE NextVisible(_, _)
NextVisible(s, i) ==
  IF i > Len(s) THEN 0
  ELSE IF s[i] \in {" ", "\r", "\n"} THEN NextVisible(s, i + 1)
  ELSE i

\* a comma of s with nothing but blanks and line breaks before the closing
\* bracket or brace
TrailingComma(s) ==
  \E i \in 1..Len(s) :
     /\ s[i] = ","
     /\ NextVisible(s, i + 1) > 0
     /\ s[NextVisible(s, i + 1)] \in {"]", "}"}

SeparatorSet == Opt(options, "separator", FALSE) = TRUE

\* C17: for a value whose strings hold no comma, stringify writes no comma
\* at all unless the separator option is set, and under no option a comma
\* after the last member of an array or an object.
C17_NoSeparator ==
  (pc = "stringified" /\ input.fam = "sv" /\ ~Has(options, "dsf") /\ text.ok) =>
     /\ ~SeparatorSet => ~Contains(text.s, ",")
     /\ ~TrailingComma(text.s)

\* a key that may be written without quotes: null, or a key that is not
\* empty, holds no whitespace, none of { } [ ] , : and no quote, opens no
\* comment and is not a keyword or a number
MayBeBare(key) ==
  \/ key = kwNull
  \/ /\ key # <<>>
     /\ \A i \in 1..Len(key) :
          /\ ~IsWhite(key[i])
          /\ key[i] \notin {"{", "}", "[", "]", ",", ":", "'", "\"", "#"}
          /\ ~(key[i] = "/" /\ i < Len(key) /\ key[i + 1] \in {"/", "*"})
     /\ key \notin {kwTrue, kwFalse}
     /\ ~tryParseNumber(key, FALSE).ok

\* the text of {key: null} with the key written as tok
KeyLine(tok, eol) ==
  <<"{">> \o eol \o <<" ", " ">> \o tok \o <<":", " ">> \o kwNull \o eol \o <<"}">>

\* C18: the key of {k: null} written by stringify with the default quoting
\* parses back as the key k; it is written without quotes only if it is
\* null or holds no whitespace, none of { } [ ] , : and no quote, opens no
\* comment and is no keyword or number, and with quotes otherwise.
C18_KeyRoundTrip ==
  input.fam = "kv" =>
    /\ pc = "stringified" =>
         /\ text.ok
         /\ text.s = KeyLine(input.key, EOL) => MayBeBare(input.key)
         /\ text.s # KeyLine(input.key, EOL) =>
              text.s = KeyLine(<<"\"">> \o JsonEscape(input.key) \o <<"\"">>, EOL)
    /\ pc = "reparsed" => value.ok /\ Payload(value.v) = Payload(BuildSv(input))

(***************************************************************************)
(* The end-of-line setting.  A caller sets it a number of times and asks   *)
(* for it; output holds the arguments of the calls made so far.            *)
(***************************************************************************)

MaxCalls == 3

EolArgs == {LF, CRLF, <<"\r">>, <<>>}

EolInputs == [fam : {"eol"}, initial : PlatformEOLs]

InitEol ==
  /\ pc = "start"
  /\ input \in EolInputs
  /\ EOL = input.initial
  /\ output = <<>>
  /\ options = None /\ text = None /\ value = None /\ document = None

\* Hjson.setEndOfLine(eol)
CallSetEndOfLine ==
  /\ pc = "start"
  /\ input.fam = "eol"
  /\ Len(output) < MaxCalls
  /\ \E eol \in EolArgs :
        /\ EOL' = setEndOfLine(eol, EOL)
        /\ output' = Append(output, eol)
  /\ UNCHANGED <<pc, input, options, text, value, document>>

\* Hjson.endOfLine()
EndOfLine ==
  /\ pc = "start"
  /\ input.fam = "eol"
  /\ text' = SOk(EOL)
  /\ pc' = "asked"
  /\ UNCHANGED <<EOL, input, options, value, document, output>>

NextEol == CallSetEndOfLine \/ EndOfLine

SpecEol == InitEol /\ [][NextEol]_vars

\* the last of the arguments calls that is \n or \r\n, or initial if there
\* is none
RECURSIVE LastAccepted(_, _)
LastAccepted(calls, initial) ==
  IF calls = <<>> THEN initial
  ELSE IF calls[Len(calls)] \in {<<"\n">>, <<"\r", "\n">>} THEN calls[Len(calls)]
  ELSE LastAccepted(SubSeq(calls, 1, Len(calls) - 1), initial)

\* C19: after any sequence of setEndOfLine calls, endOfLine() returns the
\* argument of the last call whose argument was \n or \r\n, or the initial
\* setting if there was none; a call with another argument changes nothing.
C19_LastAccepted ==
  (input.fam = "eol" /\ pc = "asked") =>
     /\ text.ok
     /\ text.s = LastAccepted(output, input.initial)

C19_Witness ==
  /\ input.fam = "eol" /\ pc = "asked"
  /\ input.initial = LF
  /\ output = <<CRLF, <<"\r">>, <<>>>>
  /\ text.s = CRLF

\* a line feed of s that no carriage return precedes
BareLineFeed(s) == \E i \in 1..Len(s) : s[i] = "\n" /\ (i = 1 \/ s[i - 1] # "\r")

\* options.eol if given, otherwise the global setting
ConfiguredEol == Opt(options, "eol", EOL)

\* C20: with the end of line \r\n, from the option or from the global
\* setting, the text that stringify returns holds no line feed without a
\* carriage return before it, for values with multiline strings and with a
\* root header comment as for every other value.
C20_ConfiguredEol ==
  (pc = "stringified" /\ input.fam = "sv" /\ ~Has(options, "dsf") /\ text.ok
     /\ ConfiguredEol = CRLF) => ~BareLineFeed(text.s)

(***************************************************************************)
(* The quoteless scan.  The text is a word, a blank or none, a character   *)
(* that may end a scalar, a second word and the end of the line; the       *)
(* parser stands at its first character with a list of DSF hooks.          *)
(***************************************************************************)

ScanWords == { <<"a">>, <<"1">>, kwTrue, kwNull, <<"h">>, <<"-">> }

ScanSeparators ==
  { <<>>, <<",">>, <<"}">>, <<"]">>, <<"#">>, <<"/", "/">>, <<"/", "*">>, <<"/">>, <<":">> }

ScanTails == { <<>>, <<"b">>, <<"1">> }

ScanEnds == { <<>>, <<"\n">>, <<"\r", "\n">> }

\* the hook p answers P for h, 1 and a,b; the hook q answers Q for h and a
ParseHookP == [name |-> <<"p">>, texts |-> {<<"h">>, <<"1">>, <<"a", ",", "b">>}, v |-> VStr(<<"P">>)]

ParseHookQ == [name |-> <<"q">>, texts |-> {<<"h">>, <<"a">>}, v |-> VStr(<<"Q">>)]

ParseDsfLists ==
  { <<>>, <<ParseHookP>>, <<ParseHookP, ParseHookQ>>, <<ParseHookQ, ParseHookP>> }

ScanInputs ==
  [fam : {"scan"}, w1 : ScanWords, sp : {<<>>, <<" ">>}, sep : ScanSeparators,
   w2 : ScanTails, end : ScanEnds, dsf : ParseDsfLists]

ScanText(inp) == inp.w1 \o inp.sp \o inp.sep \o inp.w2 \o inp.end

InitScan ==
  /\ pc = "start"
  /\ EOL \in PlatformEOLs
  /\ input \in ScanInputs
  /\ options = None /\ text = None /\ value = None /\ document = None /\ output = None

\* tfnns() with the parser at the first character of the text
Scan ==
  /\ pc = "start"
  /\ input.fam = "scan"
  /\ options' = [dsf |-> input.dsf]
  /\ value' = tfnns(ParseContext(ScanText(input), [dsf |-> input.dsf]),
                    [at |-> 1, ch |-> CharAt(ScanText(input), 0)])
  /\ pc' = "scanned"
  /\ UNCHANGED <<EOL, input, text, document, output>>

NextScan == Scan

SpecScan == InitScan /\ [][NextScan]_vars

\* the character at offset p (1-based) of s ends a scalar: the end of the
\* input, a line break, one of , } ] or the opener of a comment
EndsScalar(s, p) ==
  \/ p > Len(s)
  \/ s[p] \in {"\r", "\n", ",", "}", "]", "#"}
  \/ s[p] = "/" /\ p < Len(s) /\ s[p + 1] \in {"/", "*"}

EndsLine(s, p) == p > Len(s) \/ s[p] \in {"\r", "\n"}

\* the first offset from p on at which a scalar ends
RECURSIVE FirstEnd(_, _)
FirstEnd(s, p) == IF EndsScalar(s, p) THEN p ELSE FirstEnd(s, p + 1)

RECURSIVE LineEnd(_, _)
LineEnd(s, p) == IF EndsLine(s, p) THEN p ELSE LineEnd(s, p + 1)

IsLiteral(txt) == Trim(txt) \in {kwTrue, kwFalse, kwNull} \/ tryParseNumber(txt, FALSE).ok

\* the first hook of dsf that answers for txt, 0 if there is none
RECURSIVE FirstParseAnswer(_, _, _)
FirstParseAnswer(dsf, txt, i) ==
  IF i > Len(dsf) THEN 0
  ELSE IF txt \in dsf[i].texts THEN i
  ELSE FirstParseAnswer(dsf, txt, i + 1)

\* the accumulated text resolved: keyword, number, hooks, string
Resolved(dsf, txt) ==
  IF Trim(txt) = kwTrue THEN VBool(TRUE)
  ELSE IF Trim(txt) = kwFalse THEN VBool(FALSE)
  ELSE IF Trim(txt) = kwNull THEN VNull
  ELSE IF tryParseNumber(txt, FALSE).ok THEN VNum(tryParseNumber(txt, FALSE).n)
  ELSE IF FirstParseAnswer(dsf, Trim(txt), 1) > 0
    THEN dsf[FirstParseAnswer(dsf, Trim(txt), 1)].v
  ELSE VStr(Trim(txt))

\* the first offset from p on where a scalar ends and the text before it is
\* a keyword or a number, or else the end of the line
RECURSIVE ScanEnd(_, _)
ScanEnd(s, p) ==
  IF EndsLine(s, p) THEN p
  ELSE IF EndsScalar(s, p) /\ IsLiteral(SubSeq(s, 1, p - 1)) THEN p
  ELSE ScanEnd(s, p + 1)

\* C21 as stated: the scan ends at the first of: the end of the input, a
\* line break, one of , } ] or a comment opener, and the text before it is
\* resolved as keyword, number, DSF hook result or trimmed string.
C21_ScanStopsAtSeparator ==
  pc = "scanned" =>
    /\ value.ok
    /\ value.v = Resolved(input.dsf, SubSeq(ScanText(input), 1, FirstEnd(ScanText(input), 2) - 1))

\* C21: the scan ends at the end of the input or of the line, or before one
\* of , } ] or a comment opener when the text before it is a keyword or a
\* number; the text before the end is resolved as keyword, number, result of
\* the first DSF hook that answers, or trimmed string.
C21_ScanStopsAtLineEnd ==
  pc = "scanned" =>
    /\ value.ok
    /\ value.st.at = ScanEnd(ScanText(input), 2)
    /\ value.v = Resolved(input.dsf, SubSeq(ScanText(input), 1, ScanEnd(ScanText(input), 2) - 1))

C21_Witness ==
  /\ pc = "scanned" /\ value.ok
  /\ input.w1 = <<"a">> /\ input.sp = <<>> /\ input.sep = <<",">> /\ input.w2 = <<"b">>
  /\ input.dsf = <<ParseHookQ, ParseHookP>>
  /\ value.v = VStr(<<"P">>)

\* a string that must not be written bare: it scans as a number or a
\* keyword, begins with a structural character, a quote or a comment opener,
\* or has whitespace in front or at the end
MustQuote(s) ==
  /\ s # <<>>
  /\ \/ tryParseNumber(s, FALSE).ok
     \/ s \in {kwTrue, kwFalse, kwNull}
     \/ s[1] \in {"{", "}", "[", "]", ":", ",", "\"", "'", "#"}
     \/ StartsWith(s, <<"/", "/">>) \/ StartsWith(s, <<"/", "*">>)
     \/ IsWhite(s[1]) \/ IsWhite(s[Len(s)])

\* C22: with default options a string that is a member or an element, holds
\* no line break and must not be written bare is written as a double-quoted
\* token with JSON escapes; only a string with a line break is written as a
\* block in triple quotes.
C22_QuotedWhenUnsafe ==
  (pc = "stringified" /\ input.fam = "value" /\ input.shape \in {"member", "element"}
     /\ input.x.t = "str" /\ ~Contains(input.x.s, "\n")) =>
       /\ text.ok
       /\ ~IsSubstring(<<"'", "'", "'">>, text.s)
       /\ MustQuote(input.x.s) =>
            text.s = AroundToken(input, <<"\"">> \o JsonEscape(input.x.s) \o <<"\"">>, EOL)

\* C23: for a value parsed with its annotations from a text that holds no
\* comment, extract returns undefined: a document node is built only for a
\* subtree in which some comment field is not empty.
C23_NothingExtracted ==
  (pc = "extracted" /\ input.fam = "doc" /\ DocComments(input) = {}) => document = UndefO

\* the index of the heading of the orphan section among the lines, 0 if
\* there is none
RECURSIVE HeadingLine(_, _)
HeadingLine(lines, i) ==
  IF i > Len(lines) THEN 0
  ELSE IF lines[i] = SubSeq(OrphanHeading, 2, Len(OrphanHeading) - 1) THEN i
  ELSE HeadingLine(lines, i + 1)

\* the number of lines from i on that are not empty
RECURSIVE FilledLines(_, _)
FilledLines(lines, i) ==
  IF i > Len(lines) THEN 0
  ELSE (IF Trim(lines[i]) # <<>> THEN 1 ELSE 0) + FilledLines(lines, i + 1)

\* the number of lines of the orphan section of a footer, its heading apart
SectionLines(foot) == FilledLines(SplitNL(foot), HeadingLine(SplitNL(foot), 1) + 1)

\* C24: the section of orphaned comments that merge writes has one line for
\* each orphan: every line break inside the text of an orphan is replaced
\* by the escaped marker.
C24_OneLinePerOrphan ==
  [][(Merge /\ value'.ok /\ merge(document, value, <<>>, <<>>).dropped # <<>>) =>
        /\ HeadingLine(SplitNL(Footer(value'.v)), 1) > 0
        /\ SectionLines(Footer(value'.v)) = Len(merge(document, value, <<>>, <<>>).dropped)]_vars

(***************************************************************************)
(* Forcing a text into a comment and reading it back with the parser's     *)
(* skipper of whitespace and comments.                                     *)
(***************************************************************************)

MaxForceLen == 5

ForceChars == {"a", "#", "/", "*", "\n"}

ForceInputs == [fam : {"force"}, s : UNION { [1..n -> ForceChars] : n \in 0..MaxForceLen }]

InitForce ==
  /\ pc = "start"
  /\ EOL \in PlatformEOLs
  /\ input \in ForceInputs
  /\ options = None /\ text = None /\ value = None /\ document = None /\ output = None

\* common.forceComment(text)
ForceComment ==
  /\ pc = "start"
  /\ input.fam = "force"
  /\ text' = SOk(forceComment(input.s))
  /\ pc' = "forced"
  /\ UNCHANGED <<EOL, input, options, value, document, output>>

\* white() of a parser that stands before the forced text
SkipForced ==
  /\ pc = "forced"
  /\ value' = white(text.s, resetAt)
  /\ pc' = "skipped"
  /\ UNCHANGED <<EOL, input, options, text, document, output>>

\* common.forceComment of the forced text
ForceAgain ==
  /\ pc = "forced"
  /\ output' = SOk(forceComment(text.s))
  /\ pc' = "forcedAgain"
  /\ UNCHANGED <<EOL, input, options, text, value, document>>

NextForce == ForceComment \/ SkipForced \/ ForceAgain

SpecForce == InitForce /\ [][NextForce]_vars

\* C25: white() consumes the whole of a text that forceComment returned, so
\* that none of its characters is read as a key, a value or a structural
\* token, and forceComment of such a text returns it unchanged.
C25_ForcedIsComment ==
  /\ pc = "skipped" => value.ch = EOFc
  /\ pc = "forcedAgain" => output = text

(***************************************************************************)
(* The number lexer on short texts.                                        *)
(***************************************************************************)

MaxNumLen == 4

NumChars == {"0", "1", "-", ".", "e", " ", ",", "#"}

NumInputs ==
  [fam : {"number"}, stopAtNext : BOOLEAN,
   s : UNION { [1..n -> NumChars] : n \in 0..MaxNumLen }]

InitNumber ==
  /\ pc = "start"
  /\ EOL \in PlatformEOLs
  /\ input \in NumInputs
  /\ options = None /\ text = None /\ value = None /\ document = None /\ output = None

\* common.tryParseNumber(text, stopAtNext)
TryParseNumber ==
  /\ pc = "start"
  /\ input.fam = "number"
  /\ value' = tryParseNumber(input.s, input.stopAtNext)
  /\ pc' = "lexed"
  /\ UNCHANGED <<EOL, input, options, text, document, output>>

NextNumber == TryParseNumber

SpecNumber == InitNumber /\ [][NextNumber]_vars

\* offset at which a JSON number that starts text ends, or -1: an optional
\* '-', an integer part without superfluous leading zeros, an optional
\* fraction of at least one digit, an optional exponent of at least one digit
JsonNumberEnd(s) ==
  LET i1 == IF CharAt(s, 0) = "-" THEN 1 ELSE 0
      i2 == SkipDigits(s, i1)
      i3 == IF CharAt(s, i2) = "." /\ SkipDigits(s, i2 + 1) > i2 + 1
            THEN SkipDigits(s, i2 + 1) ELSE i2
      i4 == IF CharAt(s, i3) \in {"e", "E"}
            THEN (IF CharAt(s, i3 + 1) \in {"-", "+"} THEN i3 + 2 ELSE i3 + 1)
            ELSE i3
      i5 == IF i4 > i3 /\ SkipDigits(s, i4) > i4 THEN SkipDigits(s, i4) ELSE i3
  IN  IF i2 = i1 \/ (i2 > i1 + 1 /\ CharAt(s, i1) = "0") THEN -1 ELSE i5

\* what may follow the literal: whitespace to the end of the text, and with
\* the stop-at-next flag whitespace and then ',', '}', ']' or a comment opener
FollowerAllowed(s, i, stopAtNext) ==
  LET j == SkipWhite(s, i)
      c == CharAt(s, j)
  IN  \/ c = EOFc
      \/ /\ stopAtNext
         /\ \/ c \in {",", "}", "]", "#"}
            \/ c = "/" /\ CharAt(s, j + 1) \in {"/", "*"}

\* C26: tryParseNumber returns a number exactly for a JSON-compatible
\* numeric literal that is followed by whitespace only, or with the
\* stop-at-next flag by ',', '}', ']' or a comment opener; for every other
\* text it returns undefined.
C26_JsonLiteral ==
  (pc = "lexed" /\ input.fam = "number") =>
    (value.ok <=> (/\ JsonNumberEnd(input.s) >= 0
                   /\ FollowerAllowed(input.s, JsonNumberEnd(input.s), input.stopAtNext)))

(***************************************************************************)
(* The order of the keys: an object is read from a text, the caller adds   *)
(* or deletes a key, and the object is written.                            *)
(***************************************************************************)

MaxWritten == 3

OrderNames == {"a", "b", "c"}

\* the caller's change: none, value[key] = 4 or delete value[key]
OrderEdits == [op : {"none"}] \cup [op : {"set", "delete"}, key : OrderNames]

OrderInputs ==
  [fam : {"order"}, written : UNION { [1..n -> OrderNames] : n \in 1..MaxWritten },
   keepWsc : BOOLEAN, edit : OrderEdits]

OrderOptions == [keepWhitespaceAndComments : BOOLEAN, sortProps : BOOLEAN]

\* the number written after a key
OrderDigit(name) == IF name = "a" THEN "1" ELSE IF name = "b" THEN "2" ELSE "3"

RECURSIVE OrderLines(_)
OrderLines(written) ==
  IF written = <<>> THEN <<>>
  ELSE <<" ", " ", Head(written), ":", " ", OrderDigit(Head(written)), "\n">>
       \o OrderLines(Tail(written))

\* the text with the members in the written order
OrderText(inp) == <<"{", "\n">> \o OrderLines(inp.written) \o <<"}">>

InitOrder ==
  /\ pc = "start"
  /\ EOL \in PlatformEOLs
  /\ input \in OrderInputs
  /\ options \in OrderOptions
  /\ text = None /\ value = None /\ document = None /\ output = None

\* Hjson.parse(text, { keepWsc })
ParseOrder ==
  /\ pc = "start"
  /\ input.fam = "order"
  /\ value' = parse(OrderText(input), [keepWsc |-> input.keepWsc])
  /\ pc' = "read"
  /\ UNCHANGED <<EOL, input, options, text, document, output>>

\* the caller's value[key] = 4 or delete value[key]
EditKeys ==
  /\ pc = "read"
  /\ value.ok
  /\ input.edit.op # "none"
  /\ value' = [value EXCEPT !.v =
                 IF input.edit.op = "set"
                 THEN ObjSet(value.v, <<input.edit.key>>, VNum([m |-> 4, e |-> 0]))
                 ELSE IF HasKey(value.v, <<input.edit.key>>)
                   THEN DeleteAt(value.v, <<<<input.edit.key>>>>)
                 ELSE value.v]
  /\ pc' = "edited"
  /\ UNCHANGED <<EOL, input, options, text, document, output>>

\* Hjson.stringify(value, { keepWhitespaceAndComments, sortProps })
StringifyOrder ==
  /\ \/ pc = "read" /\ input.fam = "order" /\ input.edit.op = "none"
     \/ pc = "edited"
  /\ value.ok
  /\ text' = stringify(value.v, options, EOL)
  /\ pc' = "ordered"
  /\ UNCHANGED <<EOL, input, options, value, document, output>>

NextOrder == ParseOrder \/ EditKeys \/ StringifyOrder

SpecOrder == InitOrder /\ [][NextOrder]_vars

\* the key names of the text s in the order of their lines
EmittedKeys(s) == SelectSeq(s, LAMBDA c : c \in OrderNames)

\* the names of a list of keys
NamesOf(keys) == [i \in 1..Len(keys) |-> keys[i][1]]

\* the recorded order of the object v, if one is recorded
HasRecordedOrder(v) == v.cm # NoCm /\ Has(v.cm, "o")

\* e lists every key of keys once, in ascending order
Alphabetical(e, keys) ==
  /\ Len(e) = Len(keys)
  /\ \A i \in 1..Len(keys) : \E j \in 1..Len(e) : e[j] = keys[i][1]
  /\ \A i, j \in 1..Len(e) : i < j => StrLess(<<e[i]>>, <<e[j]>>)

RECURSIVE NestedFrom(_, _, _)
NestedFrom(s, i, open) ==
  IF i > Len(s) THEN open = <<>>
  ELSE IF s[i] = "{" THEN NestedFrom(s, i + 1, <<"}">> \o open)
  ELSE IF s[i] = "[" THEN NestedFrom(s, i + 1, <<"]">> \o open)
  ELSE IF s[i] \in {"}", "]"}
    THEN open # <<>> /\ Head(open) = s[i] /\ NestedFrom(s, i + 1, Tail(open))
  ELSE NestedFrom(s, i + 1, open)

\* C28: in the text that stringify returns for a value without strings the
\* braces and brackets are balanced and properly nested: every object is
\* written with its opening and its closing brace, every array with its
\* opening and its closing bracket.
C28_Balanced ==
  (pc = "stringified" /\ input.fam = "value" /\ text.ok /\ input.x.t # "str") =>
    NestedFrom(text.s, 1, <<>>)

\* the number of the places of e that hold x
Occurrences(e, x) == Cardinality({ i \in 1..Len(e) : e[i] = x })

\* C29: with comment preservation on, stringify writes every own key of an
\* object exactly once whatever the recorded order holds: a key added after
\* parsing is written, a key that the recorded order lists twice is written
\* once, and a key that the object no longer has is not written.
C29_EveryKeyOnce ==
  (pc = "ordered" /\ text.ok /\ options.keepWhitespaceAndComments) =>
    \A n \in OrderNames :
      Occurrences(EmittedKeys(text.s), n) = (IF HasKey(value.v, <<n>>) THEN 1 ELSE 0)

(***************************************************************************)
(* Reading and setting the root comments of an annotated value.            *)
(***************************************************************************)

\* the text argument of comments.header and comments.footer: absent, or a
\* text
RootTexts == {UndefS, <<"n", "e", "w">>, <<"#", " ", "n">>}

\* the outcome of a call of rootComment kept by the caller, with the
\* arguments of the call
RootCall(index, setText, r) ==
  IF r.ok THEN [ok |-> TRUE, index |-> index, setText |-> setText, s |-> r.s]
  ELSE [ok |-> FALSE, index |-> index, setText |-> setText, err |-> r.err]

\* Hjson.comments.header(value, setText)
CallHeader ==
  /\ pc = "annotated"
  /\ input.fam = "doc"
  /\ value.ok
  /\ \E setText \in RootTexts :
       /\ output' = RootCall(0, setText, header(value.v, setText))
       /\ value' = IF header(value.v, setText).ok
                   THEN [value EXCEPT !.v = header(value.v, setText).v] ELSE value
  /\ pc' = "rooted"
  /\ UNCHANGED <<EOL, input, options, text, document>>

\* Hjson.comments.footer(value, setText)
CallFooter ==
  /\ pc = "annotated"
  /\ input.fam = "doc"
  /\ value.ok
  /\ \E setText \in RootTexts :
       /\ output' = RootCall(1, setText, footer(value.v, setText))
       /\ value' = IF footer(value.v, setText).ok
                   THEN [value EXCEPT !.v = footer(value.v, setText).v] ELSE value
  /\ pc' = "rooted"
  /\ UNCHANGED <<EOL, input, options, text, document>>

NextRoot == ParseKeepWsc \/ CallHeader \/ CallFooter

SpecRoot == InitDoc /\ [][NextRoot]_vars

\* the value is annotated
Annotated(v) == IsObjectLike(v) /\ v.cm # NoCm

\* the value with the pair of its root comments written out, the absent
\* pair as the pair of two empty texts
WithRootPair(v) == [v EXCEPT !.cm = SetField(v.cm, "r", RootPair(v))]

\* C30: comments.header(value) and comments.footer(value) without a text
\* return the root header or footer of the annotated value and leave the
\* value, its comments and its root comments as they are; a call with a text sets that root
\* comment to the comment-forced text and returns it.
C30_ReadWithoutText ==
  [][(pc = "annotated" /\ pc' = "rooted" /\ Annotated(value.v)) =>
       /\ output'.ok
       /\ IF output'.setText = UndefS
          THEN /\ output'.s = OrEmpty(RootPair(value.v)[output'.index + 1])
               /\ value'.ok /\ WithRootPair(value'.v) = WithRootPair(value.v)
          ELSE /\ output'.s = forceComment(output'.setText)
               /\ value'.v.cm.r[output'.index + 1] = forceComment(output'.setText)]_vars

(***************************************************************************)
(* The library with every input and every operation.                      *)
(***************************************************************************)

Init == InitParse \/ InitRoundTrip \/ InitDoc \/ InitStringify \/ InitEol \/ InitScan
          \/ InitForce \/ InitNumber \/ InitOrder

Next ==
  \/ \E eol \in {LF, CRLF, <<"\r">>} : SetEndOfLine(eol)
  \/ NextParse
  \/ NextRoundTrip
  \/ NextRt
  \/ NextMerge
  \/ NextStringify
  \/ NextEol
  \/ NextScan
  \/ NextForce
  \/ NextNumber
  \/ NextOrder
  \/ NextRoot

Spec == Init /\ [][Next]_vars

====
